---- MODULE Spec2Model ----
(***************************************************************************)
(* A model of tree.py: the saturating Color accumulator, the palette       *)
(* functions, the seven patterns and the scene scheduler / frame loop of   *)
(* Tree.run, statement by statement.                                       *)
(*                                                                         *)
(* Specifications.  Spec, SpecPace and SpecScenes follow the frame loop;   *)
(* SpecLive is the loop never interrupted, under fairness; SpecFade1 and   *)
(* SpecFade2 follow one pattern instance frame by frame; SpecBench applies *)
(* the pure functions to inputs.                                           *)
(*                                                                         *)
(* Numbers.  A Python float is an IEEE-754 double and is modelled as one:  *)
(* sign, mantissa and exponent, every operation rounded to the nearest     *)
(* double, a tie to the even mantissa.  A Python int that takes part in    *)
(* float arithmetic is the double of the same value.  The times run()     *)
(* keeps (t, t_next, t_next_scene, w) are doubles in seconds.              *)
(*                                                                         *)
(* Inputs.  The clock and the random numbers are inputs, drawn from small  *)
(* sets.  The clock ticks in milliseconds: time.time() returns the double  *)
(* of now / 1000, and time.sleep(w) returns at the millisecond nearest to  *)
(* now + w, or later.  math.sin is the C library's and is tabulated at     *)
(* the arguments the patterns pass it under those draws.                   *)
(*                                                                         *)
(* Interrupts.  A KeyboardInterrupt can arrive before any statement of     *)
(* run() and before any statement of a next_frame() it has called; get()   *)
(* of a pattern, the operators of Color and the calls into the strip       *)
(* change nothing that outlives them until they return, and are taken as   *)
(* one statement.                                                          *)
(***************************************************************************)
EXTENDS Integers, Sequences, FiniteSets, TLC

VARIABLES
    args,          \* Tree.args after __init__: [action, wait, clear]
    fixfunc,       \* Tree.fixfunc: a class name or None
    func1,         \* Tree.func1: the active pattern instance or None
    func2,         \* Tree.func2: the incoming pattern instance or None
    mix,           \* Tree.mix
    now,           \* the wall clock, ms
    t,             \* run(): local t
    t_next_scene,  \* run(): local t_next_scene
    t_next,        \* run(): local t_next
    w,             \* run(): local w
    pc,            \* position in run(): the statement about to run
    i,             \* run(): local i, the index of the for loops, an
                   \* optional integer: none before the first pass
    iter,          \* the passes made by the for loop that is running, or
                   \* the statements done of the next_frame() that is
    c,             \* run(): local c
    c2,            \* run(): local c2
    pixels,        \* the strip's pixel buffer (setPixelColor)
    shown,         \* the buffer last pushed by show(), or None
    hist,          \* history of the run, read by the properties only
    calc           \* the pure-function bench: [op, in, out]; the samples
                   \* of the last frame where one pattern is followed

vars == <<args, fixfunc, func1, func2, mix, now, t, t_next_scene, t_next, w,
          pc, i, iter, c, c2, pixels, shown, hist, calc>>

\* Python's None, where a class name or a program position is expected
None == "None"
\* an optional integer: the empty set for None, {k} for k
NoInt == {}
SomeInt(k) == {k}
IntOf(o) == CHOOSE k \in o : TRUE
\* the empty slot of func1 / func2 (None)
NoFunc == [cls |-> None, id |-> 0]
\* the pushed buffer before the first show()
NoBuffer == <<>>
\* a local of run() that has not been assigned yet
Unbound == [unbound |-> TRUE]

(***************************************************************************)
(* Natural numbers of any size, for the mantissas: little-endian sequences *)
(* of limbs below 2^15 with a nonzero top limb; <<>> is 0.                 *)
(***************************************************************************)
Abs(x) == IF x < 0 THEN -x ELSE x

Limb == 32768
LimbBits == 15

RECURSIVE NTrim(_)
NTrim(a) ==
    IF a # <<>> /\ a[Len(a)] = 0 THEN NTrim(SubSeq(a, 1, Len(a) - 1)) ELSE a

RECURSIVE NFromInt(_)
NFromInt(k) == IF k = 0 THEN <<>> ELSE <<k % Limb>> \o NFromInt(k \div Limb)

RECURSIVE NToInt(_)
NToInt(a) == IF a = <<>> THEN 0 ELSE a[1] + Limb * NToInt(Tail(a))

RECURSIVE NCmpFrom(_, _, _)
NCmpFrom(a, b, k) ==
    IF k = 0 THEN 0
    ELSE IF a[k] < b[k] THEN -1
    ELSE IF a[k] > b[k] THEN 1
    ELSE NCmpFrom(a, b, k - 1)

\* the sign of a - b
NCmp(a, b) ==
    IF Len(a) < Len(b) THEN -1
    ELSE IF Len(a) > Len(b) THEN 1
    ELSE NCmpFrom(a, b, Len(a))

RECURSIVE NAddC(_, _, _)
NAddC(a, b, cy) ==
    IF a = <<>> /\ b = <<>> THEN (IF cy = 0 THEN <<>> ELSE <<cy>>)
    ELSE LET x == (IF a = <<>> THEN 0 ELSE a[1])
                  + (IF b = <<>> THEN 0 ELSE b[1]) + cy
         IN  <<x % Limb>> \o NAddC(IF a = <<>> THEN a ELSE Tail(a),
                                   IF b = <<>> THEN b ELSE Tail(b),
                                   x \div Limb)

NAdd(a, b) == NAddC(a, b, 0)

RECURSIVE NSubC(_, _, _)
NSubC(a, b, cy) ==
    IF a = <<>> THEN <<>>
    ELSE LET x == a[1] - (IF b = <<>> THEN 0 ELSE b[1]) - cy
         IN  <<x % Limb>> \o NSubC(Tail(a), IF b = <<>> THEN b ELSE Tail(b),
                                   IF x < 0 THEN 1 ELSE 0)

\* a - b for a >= b
NSub(a, b) == NTrim(NSubC(a, b, 0))

RECURSIVE NMulSmallC(_, _, _)
NMulSmallC(a, k, cy) ==
    IF a = <<>> THEN (IF cy = 0 THEN <<>> ELSE <<cy>>)
    ELSE LET x == a[1] * k + cy
         IN  <<x % Limb>> \o NMulSmallC(Tail(a), k, x \div Limb)

\* a * k for 0 <= k <= 2^15
NMulSmall(a, k) == IF k = 0 THEN <<>> ELSE NMulSmallC(a, k, 0)

RECURSIVE NMul(_, _)
NMul(a, b) ==
    IF a = <<>> \/ b = <<>> THEN <<>>
    ELSE NAdd(NMulSmall(a, b[1]),
              LET r == NMul(a, Tail(b)) IN IF r = <<>> THEN r ELSE <<0>> \o r)

RECURSIVE Zeros(_)
Zeros(k) == IF k = 0 THEN <<>> ELSE <<0>> \o Zeros(k - 1)

\* a * 2^bits
NShl(a, bits) ==
    IF a = <<>> THEN a
    ELSE Zeros(bits \div LimbBits) \o NMulSmall(a, 2 ^ (bits % LimbBits))

RECURSIVE NDivSmallR(_, _, _, _)
NDivSmallR(a, d, k, r) ==
    IF k = 0 THEN <<<<>>, r>>
    ELSE LET x == r * Limb + a[k]
             rest == NDivSmallR(a, d, k - 1, x % d)
         IN  <<Append(rest[1], x \div d), rest[2]>>

\* <<quotient, remainder>> with the quotient trimmed
NTrimQuotient(qr) == <<NTrim(qr[1]), qr[2]>>

\* <<quotient, remainder>> of a by d, 0 < d <= 2^15
NDivSmall(a, d) == NTrimQuotient(NDivSmallR(a, d, Len(a), 0))

\* floor(a / 2^bits)
NShr(a, bits) ==
    IF bits \div LimbBits >= Len(a) THEN <<>>
    ELSE NDivSmall(SubSeq(a, bits \div LimbBits + 1, Len(a)),
                   2 ^ (bits % LimbBits))[1]

RECURSIVE BitLen(_)
BitLen(k) == IF k = 0 THEN 0 ELSE 1 + BitLen(k \div 2)

\* the number of bits of a
NBits(a) ==
    IF a = <<>> THEN 0 ELSE LimbBits * (Len(a) - 1) + BitLen(a[Len(a)])

RECURSIVE TrailZ(_)
TrailZ(k) == IF k % 2 = 1 THEN 0 ELSE 1 + TrailZ(k \div 2)

\* the number of trailing zero bits of a # 0
RECURSIVE NTrail(_)
NTrail(a) == IF a[1] = 0 THEN LimbBits + NTrail(Tail(a)) ELSE TrailZ(a[1])

\* the sign of low - 2^(bits - 1) for low < 2^bits
NHalfCmp(low, bits) ==
    IF NBits(low) < bits THEN -1
    ELSE IF NTrail(low) = bits - 1 THEN 0 ELSE 1

\* q, or q + 1 when the part cut off is above a half (cy > 0) or is a half
\* (cy = 0) and q is odd
NTiesEven(q, cy) ==
    IF cy > 0 \/ (cy = 0 /\ q # <<>> /\ q[1] % 2 = 1) THEN NAdd(q, <<1>>) ELSE q

\* a / 2^bits rounded to the nearest integer, a tie to the even one, bits > 0:
\* the part cut off is a mod 2^bits
NShrEven(a, bits) ==
    NTiesEven(NShr(a, bits),
              NHalfCmp(IF bits \div LimbBits >= Len(a) THEN a
                       ELSE NTrim(SubSeq(a, 1, bits \div LimbBits)
                                  \o <<a[bits \div LimbBits + 1]
                                         % (2 ^ (bits % LimbBits))>>),
                       bits))

(***************************************************************************)
(* The float arithmetic of the source: doubles s * m * 2^e with s the      *)
(* sign, m an odd mantissa below 2^53 (<<>> for 0) and e the exponent.     *)
(***************************************************************************)
\* 0.0 (and 0: an int in float arithmetic)
DZero == [s |-> 1, m |-> <<>>, e |-> 0]

\* s * q * 2^e with the z trailing zero bits of q moved to the exponent
DStrip(s, q, e, z) == [s |-> s, m |-> NShr(q, z), e |-> e + z]

\* s * q * 2^e, q # 0 of at most 53 bits, with an odd mantissa
DOdd(s, q, e) == DStrip(s, q, e, NTrail(q))

\* s * m * 2^e with m, which is k bits too long, rounded to 53 bits
DFit(s, m, e, k) ==
    DOdd(s, IF k <= 0 THEN m ELSE NShrEven(m, k), IF k <= 0 THEN e ELSE e + k)

\* the double nearest to s * m * 2^e: a mantissa of 53 bits
Nearest(s, m, e) == IF m = <<>> THEN DZero ELSE DFit(s, m, e, NBits(m) - 53)

\* the int k as a double, |k| < 2^31
DInt(k) ==
    IF k = 0 THEN DZero ELSE DOdd(IF k < 0 THEN -1 ELSE 1, NFromInt(Abs(k)), 0)

DOne == [s |-> 1, m |-> <<1>>, e |-> 0]

\* x * y
DMul(x, y) == Nearest(x.s * y.s, NMul(x.m, y.m), x.e + y.e)

\* xs * a * 2^e + ys * b * 2^e, cy being the sign of a - b
DAddBy(xs, a, ys, b, e, cy) ==
    Nearest(IF xs = ys \/ cy >= 0 THEN xs ELSE ys,
            IF xs = ys THEN NAdd(a, b)
            ELSE IF cy >= 0 THEN NSub(a, b) ELSE NSub(b, a),
            e)

\* xs * a * 2^e + ys * b * 2^e
DAddAt(xs, a, ys, b, e) == DAddBy(xs, a, ys, b, e, NCmp(a, b))

\* the smaller of two exponents
Low(d, e) == IF d < e THEN d ELSE e

\* x + y, the mantissas brought to the smaller exponent
DAdd(x, y) ==
    IF x.m = <<>> THEN y
    ELSE IF y.m = <<>> THEN x
    ELSE DAddAt(x.s, NShl(x.m, x.e - Low(x.e, y.e)),
                y.s, NShl(y.m, y.e - Low(x.e, y.e)), Low(x.e, y.e))

\* x - y
DSub(x, y) == DAdd(x, IF y.m = <<>> THEN y ELSE [y EXCEPT !.s = -y.s])

\* the quotient q of m * 2^75 by d with one more bit, set when the division
\* left a remainder, so that rounding sees the exact quotient
DSticky(qr) == NAdd(NShl(qr[1], 1), IF qr[2] = 0 THEN <<>> ELSE <<1>>)

\* x / d for an int d, 0 < |d| < 2^15
DDiv(x, d) ==
    IF x.m = <<>> THEN DZero
    ELSE Nearest(IF d < 0 THEN -x.s ELSE x.s,
                 DSticky(NDivSmall(NShl(x.m, 75), Abs(d))), x.e - 76)

\* n / d of two ints, and the decimal literal that reads n/d (0.02 is 2/100)
DLit(n, d) == DDiv(DInt(n), d)

\* the sign of x - y
DCmp(x, y) ==
    IF x.m = <<>> THEN (IF y.m = <<>> THEN 0 ELSE -y.s)
    ELSE IF y.m = <<>> \/ x.s # y.s THEN x.s
    ELSE x.s * NCmp(NShl(x.m, x.e - Low(x.e, y.e)),
                    NShl(y.m, y.e - Low(x.e, y.e)))

DLt(x, y) == DCmp(x, y) < 0
DGt(x, y) == DCmp(x, y) > 0
DGe(x, y) == DCmp(x, y) >= 0

\* math.pi
DPi == [s |-> 1, m |-> <<1443, 21777, 4349, 25>>, e |-> -48]

\* Python's round(): to the nearest integer, a tie to the even one
PyRound(x) ==
    IF x.m = <<>> THEN 0
    ELSE IF x.e >= 0 THEN x.s * NToInt(NShl(x.m, x.e))
    ELSE x.s * NToInt(NShrEven(x.m, -x.e))

\* Python's | on unbounded two's-complement integers
RECURSIVE BitOr(_, _)
BitOr(a, b) ==
    IF a = 0 THEN b
    ELSE IF b = 0 THEN a
    ELSE IF a = -1 \/ b = -1 THEN -1
    ELSE 2 * BitOr(a \div 2, b \div 2) + (IF a % 2 = 1 \/ b % 2 = 1 THEN 1 ELSE 0)

\* Python's & 255
AndFF(x) == x % 256

(***************************************************************************)
(* class Color                                                             *)
(***************************************************************************)
\* the attributes red, green and blue
Channels == {"red", "green", "blue"}

\* a Color object with the channels ch and the flag black
WithChannels(ch, black) ==
    [red |-> ch["red"], green |-> ch["green"], blue |-> ch["blue"],
     black |-> black]

\* Color.__init__ on float channels
ColorD(r, g, b) ==
    [red |-> r, green |-> g, blue |-> b,
     black |-> (r = DZero /\ g = DZero /\ b = DZero)]

\* Color.__init__ on the int channels rgb = <<red, green, blue>>
ColorOf(rgb) ==
    WithChannels([n \in Channels |->
                    DInt(IF n = "red" THEN rgb[1]
                         ELSE IF n = "green" THEN rgb[2] ELSE rgb[3])],
                 rgb[1] = 0 /\ rgb[2] = 0 /\ rgb[3] = 0)

\* Color(red, green, blue) on int channels
Color(r, g, b) == ColorOf(<<r, g, b>>)

\* Color(): the empty colour
ColorEmpty == [red |-> DZero, green |-> DZero, blue |-> DZero, black |-> TRUE]

\* the three += of __iadd__
Summed(self, other) ==
    WithChannels([n \in Channels |-> DAdd(self[n], other[n])], self.black)

\* the four assignments of the else branch of __iadd__
Adopted(self, other) ==
    [self EXCEPT !.black = FALSE, !.red = other.red, !.green = other.green,
                 !.blue = other.blue]

\* __iadd__ with the adoption branch leaving the black flag set
iaddKeepBlack(self, other) ==
    IF other.black THEN self ELSE Summed(self, other)

\* __iadd__ without the early return for an empty other
iaddNoSkip(self, other) ==
    IF self.black = FALSE THEN Summed(self, other) ELSE Adopted(self, other)

\* Color.__iadd__: self += other, the new self
iadd(self, other) ==
    IF other.black THEN self
    ELSE IF self.black = FALSE THEN Summed(self, other)
    ELSE Adopted(self, other)

\* the three *= of __imul__
Scaled(self, other) ==
    WithChannels([n \in Channels |-> DMul(self[n], other)], self.black)

\* __imul__ without the clamp of a negative factor to 0
imulNoClamp(self, other) == IF self.black THEN self ELSE Scaled(self, other)

\* Color.__imul__: self *= other, the new self
imul(self, other) ==
    IF self.black THEN self
    ELSE Scaled(self, IF DLt(other, DZero) THEN DZero ELSE other)

\* Color.get: the receiver afterwards, its channels clamped in place; only
\* the upper bound is tested
get_self(self) ==
    IF self.black THEN self
    ELSE WithChannels([n \in Channels |->
                          IF DGt(self[n], DInt(255)) THEN DInt(255) ELSE self[n]],
                      self.black)

\* Color.__iadd__, __imul__ and get left by an exception: the receiver, old
\* before the call and new after it, with the assignments of the method made
\* as far as it has come: black, then red, green and blue in this order
Partial(old, new) ==
    {old} \cup
    {[n \in DOMAIN old |->
        IF n = "black" \/ n \in made THEN new[n] ELSE old[n]] :
        made \in {{}, {"red"}, {"red", "green"}, Channels}}

\* red << 8 | green << 16 | blue of rounded channels
Packed(x) == BitOr(BitOr(x["red"] * 256, x["green"] * 65536), x["blue"])

\* Color.get: the packed integer returned
get(self) ==
    IF self.black THEN 0
    ELSE Packed([n \in Channels |-> PyRound(get_self(self)[n])])

(***************************************************************************)
(* Palette functions                                                       *)
(***************************************************************************)
\* wheel with the last segment starting one position late
wheelLate(pos) ==
    ColorOf(IF pos < 85 THEN <<pos * 3, 255 - pos * 3, 0>>
            ELSE IF pos < 171
            THEN <<255 - (pos - 85) * 3, 0, (pos - 85) * 3>>
            ELSE <<0, (pos - 171) * 3, 255 - (pos - 171) * 3>>)

\* wheel(pos), "Generate rainbow colors across 0-255 positions."
wheel(pos) ==
    ColorOf(IF pos < 85 THEN <<pos * 3, 255 - pos * 3, 0>>
            ELSE IF pos < 170
            THEN <<255 - (pos - 85) * 3, 0, (pos - 85) * 3>>
            ELSE <<0, (pos - 170) * 3, 255 - (pos - 170) * 3>>)

fixcolor(pos) ==
    ColorOf(IF pos = 0 THEN <<255, 0, 0>>
            ELSE IF pos = 1 THEN <<0, 255, 0>>
            ELSE IF pos = 2 THEN <<0, 0, 255>>
            ELSE IF pos = 3 THEN <<128, 128, 0>>
            ELSE IF pos = 4 THEN <<0, 128, 128>>
            ELSE IF pos = 5 THEN <<128, 0, 128>>
            ELSE <<255, 255, 255>>)

(***************************************************************************)
(* Bounds of the model                                                     *)
(***************************************************************************)
\* the strip length LED_COUNT (100 in tree.py), scaled down
LED_COUNT == 2
\* the frame loop is followed for this many frames
MaxFrames == 54
\* a show() can stall only in the first frames of a run
StallFrames == 1
\* the pacing runs are followed for this many frames
MaxPaceFrames == 3
\* the uninterrupted runs are followed for this many changes of scene
MaxScenes == 2
\* and for at most this many frames for each of them (a wait of 1 s and the
\* 51 frames of a transition take 77 frames of 0.04 s)
SceneFrames == 80

\* the command lines the run is started with (argparse output)
ActionInputs == {SomeInt(0), SomeInt(5)}
\* the command lines that leave the choice of the scene to random.choice, or
\* index funclist from its end, or beyond it
SceneActions == {NoInt, SomeInt(7), SomeInt(-1), SomeInt(-8)}
WaitInputs == {-1, 0, 1}
\* what the clock does while the frame loop runs, ms: how long strip.show()
\* can take, and how long when it stalls (longer than a frame); how much later
\* the clock reads at line 352 than at line 333; how much longer than asked
\* time.sleep() can take
Delays == [show |-> {0, 5}, stall |-> {1000}, code |-> {0}, sleep |-> {0}]
\* the same for the pacing runs, and for the first frame of the uninterrupted
\* runs
PaceDelays ==
    [show |-> {0, 30, 35, 200}, stall |-> {}, code |-> {0, 2}, sleep |-> {0, 45}]

\* the random numbers drawn while the frame loop runs: random.randrange(2, 5)
\* for wave; random.randrange(20, 100) for the shift of a FuncRainbow;
\* random.randrange(-100, 100) for the shift or speed of the moving dots;
\* random.randrange(3) for the wave of a FuncMoveingDots2;
\* random.randrange(256) for a colour of the wheel; random.randrange(7) for a
\* fixed colour; random.randrange(self.slow * 2) for the phase a pixel starts
\* with; random.randrange(5) and random.randrange(10) of next_frame, never 0;
\* random.randrange(LED_COUNT * 10) of FuncSparkling1.get, never 0
Draws ==
    [wave |-> {3}, shift |-> {50}, speed |-> {-40}, count |-> {0},
     wheel |-> {100}, fix |-> {6}, phase |-> {30}, trigger |-> {1},
     flash |-> {1}]
\* the exponents of SinTable are written with this much added
ExpBias == 1100

\* math.sin at the arguments x the patterns pass it under the draws above, in
\* ascending order of x.  An entry is <<sign of x, exponent of x, sign of
\* sin(x), exponent of sin(x), number of limbs of the mantissa of x>>
\* followed by the limbs of the mantissa of x and those of sin(x); a sign is
\* 0 for + and 1 for -
SinTable == <<
    <<1, 1053, 0, 1047, 4, 26213, 19660, 6553, 47, 22861, 2436, 17774, 177>>,
    <<1, 1052, 0, 1047, 4, 6551, 13107, 26214, 92, 22033, 17510, 21106, 210>>,
    <<1, 1052, 0, 1047, 4, 32765, 32767, 32767, 91, 30465, 3807, 3793, 224>>,
    <<1, 1054, 0, 1047, 4, 6553, 13107, 26214, 22, 20329, 20480, 11406, 235>>,
    <<1, 1053, 0, 1047, 4, 26213, 19660, 6553, 45, 12189, 16773, 7501, 244>>,
    <<1, 1052, 0, 1051, 4, 13105, 26214, 19660, 89, 23129, 4366, 21851, 15>>,
    <<1, 1051, 0, 1047, 4, 26209, 19660, 6553, 179, 9619, 4331, 21938, 250>>,
    <<1, 1052, 0, 1047, 4, 6551, 13107, 26214, 88, 8217, 26143, 19839, 254>>,
    <<1, 1053, 0, 1047, 4, 32767, 32767, 32767, 43, 5099, 27741, 32685, 255>>,
    <<1, 1051, 0, 1047, 4, 32763, 32767, 32767, 175, 5099, 27741, 32685, 255>>,
    <<1, 1054, 0, 1052, 4, 6553, 13107, 26214, 21, 13347, 21010, 31571, 7>>,
    <<1, 1052, 0, 1054, 4, 19659, 6553, 13107, 86, 26167, 20865, 31518, 1>>,
    <<1, 1051, 0, 1047, 4, 6549, 13107, 26214, 172, 7037, 16614, 3921, 251>>,
    <<1, 1052, 0, 1048, 4, 13105, 26214, 19660, 85, 27657, 2466, 14722, 122>>,
    <<1, 1055, 0, 1048, 4, 13107, 26214, 19660, 10, 4831, 21036, 3776, 118>>,
    <<1, 1051, 0, 1050, 4, 13103, 26214, 19660, 169, 1207, 5259, 17328, 29>>,
    <<1, 1053, 0, 1047, 4, 32767, 32767, 32767, 41, 17143, 29152, 6622, 225>>,
    <<1, 1052, 0, 1049, 4, 26213, 19660, 6553, 83, 25441, 30647, 32141, 52>>,
    <<1, 1051, 0, 1047, 4, 19657, 6553, 13107, 166, 3451, 24287, 30263, 211>>,
    <<1, 1052, 0, 1048, 4, 19659, 6553, 13107, 82, 6915, 21713, 8643, 98>>,
    <<1, 1053, 0, 1050, 4, 6553, 13107, 26214, 40, 3269, 26228, 12975, 22>>,
    <<1, 1051, 0, 1047, 4, 26211, 19660, 6553, 163, 26141, 13216, 5502, 179>>,
    <<1, 1055, 0, 1048, 4, 13107, 26214, 3276, 10, 29527, 10581, 296, 80>>,
    <<1, 1052, 0, 1050, 4, 32767, 32767, 32767, 79, 27111, 15740, 13391, 17>>,
    <<1, 1051, 0, 1048, 4, 32765, 32767, 32767, 159, 10133, 30195, 20797, 69>>,
    <<1, 1052, 0, 1046, 4, 26213, 19660, 6553, 79, 13851, 16961, 8466, 234>>,
    <<1, 1054, 0, 1046, 4, 13107, 26214, 19660, 19, 28103, 16742, 20883, 187>>,
    <<1, 1051, 0, 1046, 4, 6551, 13107, 26214, 156, 28073, 16742, 20883, 187>>,
    <<1, 1051, 0, 1046, 4, 15547, 5916, 9492, 155, 2701, 7040, 29522, 141>>,
    <<1, 1053, 0, 1047, 4, 6553, 13107, 26214, 38, 20619, 11953, 18701, 69>>,
    <<1, 1052, 0, 1046, 4, 6553, 13107, 26214, 76, 23381, 2069, 8366, 89>>,
    <<1, 1051, 0, 1046, 4, 13105, 26214, 19660, 153, 23349, 2069, 8366, 89>>,
    <<1, 1051, 0, 1047, 4, 22101, 19023, 2938, 152, 11269, 15533, 21927, 20>>,
    <<1, 1052, 0, 1044, 4, 32767, 32767, 32767, 75, 9851, 10568, 29802, 153>>,
    <<1, 1053, 1, 1043, 4, 13107, 26214, 19660, 37, 8689, 10308, 15733, 101>>,
    <<1, 1051, 1, 1043, 4, 19659, 6553, 13107, 150, 8945, 10308, 15733, 101>>,
    <<1, 1051, 1, 1044, 4, 28655, 32130, 29152, 148, 31229, 25854, 16027, 243>>,
    <<1, 1054, 1, 1045, 4, 13107, 26214, 19660, 18, 5799, 16078, 14461, 127>>,
    <<1, 1052, 1, 1045, 4, 13107, 26214, 19660, 73, 7081, 15275, 7840, 228>>,
    <<1, 1051, 1, 1048, 4, 26213, 19660, 6553, 147, 13181, 1909, 17364, 28>>,
    <<1, 1051, 1, 1046, 4, 2441, 12470, 22599, 145, 28547, 30323, 21499, 160>>,
    <<1, 1052, 1, 1046, 4, 6553, 13107, 26214, 72, 22837, 4927, 12398, 163>>,
    <<1, 1100, 1, 1046, 1, 9, 12177, 27672, 152, 211>>,
    <<1, 1051, 1, 1047, 4, 32767, 32767, 32767, 143, 6103, 13836, 16460, 105>>,
    <<1, 1051, 1, 1046, 4, 8995, 25577, 16045, 142, 22339, 22565, 1150, 254>>,
    <<1, 1053, 1, 1048, 4, 13107, 26214, 19660, 35, 7111, 25635, 4281, 64>>,
    <<1, 1052, 1, 1047, 4, 19661, 6553, 13107, 70, 21213, 1429, 24209, 149>>,
    <<1, 1051, 1, 1048, 4, 6553, 13107, 26214, 140, 26997, 17098, 28488, 74>>,
    <<1, 1051, 1, 1047, 4, 15549, 5916, 9492, 139, 23101, 15759, 21078, 168>>,
    <<1, 1052, 1, 1047, 4, 13107, 26214, 19660, 69, 8707, 32349, 23596, 169>>,
    <<1, 1052, 1, 1049, 4, 18215, 17544, 8757, 69, 5715, 16993, 12635, 44>>,
    <<1, 1053, 1, 1047, 4, 19661, 6553, 13107, 34, 12579, 12137, 185, 188>>,
    <<1, 1051, 1, 1047, 4, 13107, 26214, 19660, 137, 12589, 12137, 185, 188>>,
    <<1, 1051, 1, 1049, 4, 22103, 19023, 2938, 136, 16309, 11061, 29046, 50>>,
    <<1, 1099, 1, 1049, 1, 17, 30335, 27695, 3380, 51>>,
    <<1, 1054, 1, 1047, 4, 17661, 6024, 30042, 16, 22033, 17510, 21106, 210>>,
    <<1, 1052, 1, 1047, 4, 26215, 19660, 6553, 67, 30609, 7771, 25471, 218>>,
    <<1, 1051, 1, 1047, 4, 19661, 6553, 13107, 134, 30617, 7771, 25471, 218>>,
    <<1, 1051, 1, 1047, 4, 28657, 32130, 29152, 132, 7531, 30324, 10924, 230>>,
    <<1, 1052, 1, 1047, 4, 19661, 6553, 13107, 66, 24911, 28246, 31325, 230>>,
    <<1, 1052, 1, 1047, 4, 24769, 30651, 2203, 66, 20329, 20480, 11406, 235>>,
    <<1, 1054, 1, 1050, 4, 19661, 6553, 13107, 16, 9829, 15866, 3387, 30>>,
    <<1, 1051, 1, 1048, 4, 26215, 19660, 6553, 131, 6551, 30697, 13549, 120>>,
    <<1, 1051, 1, 1048, 4, 2443, 12470, 22599, 129, 22757, 14822, 31759, 123>>,
    <<1, 1053, 1, 1047, 4, 19661, 6553, 13107, 32, 13411, 13971, 9561, 248>>,
    <<1, 1053, 1, 1047, 4, 22215, 18602, 7655, 32, 9615, 4331, 21938, 250>>,
    <<1, 1052, 1, 1048, 4, 1, 0, 0, 64, 26555, 8232, 20901, 126>>,
    <<1, 1051, 1, 1047, 4, 1, 0, 0, 128, 20345, 16465, 9034, 253>>,
    <<1, 1051, 1, 1047, 4, 8997, 25577, 16045, 126, 7421, 27003, 21592, 255>>,
    <<1, 1050, 1, 1050, 4, 6557, 13107, 26214, 252, 19445, 30030, 31657, 31>>,
    <<1, 1052, 1, 1047, 4, 31323, 10990, 28418, 62, 5099, 27741, 32685, 255>>,
    <<1, 1053, 1, 1047, 4, 26215, 19660, 6553, 31, 14129, 22785, 20548, 255>>,
    <<1, 1051, 1, 1051, 4, 6555, 13107, 26214, 124, 2931, 9616, 32004, 15>>,
    <<1, 1051, 1, 1047, 4, 15551, 5916, 9492, 123, 5201, 30581, 6132, 253>>,
    <<1, 1050, 1, 1047, 4, 19665, 6553, 13107, 246, 21597, 31196, 31819, 252>>,
    <<1, 1055, 1, 1047, 4, 2277, 22673, 21574, 7, 7041, 16614, 3921, 251>>,
    <<1, 1050, 1, 1047, 4, 16323, 30219, 18307, 243, 24207, 5956, 16151, 248>>,
    <<1, 1050, 1, 1047, 4, 26219, 19660, 6553, 243, 30743, 23073, 25802, 247>>,
    <<1, 1051, 1, 1047, 4, 13109, 26214, 19660, 121, 30741, 23073, 25802, 247>>,
    <<1, 1051, 1, 1047, 4, 22105, 19023, 2938, 120, 7867, 9268, 20368, 240>>,
    <<1, 1050, 1, 1048, 4, 5, 0, 0, 240, 22303, 1788, 2097, 120>>,
    <<1, 1052, 1, 1048, 4, 5109, 24098, 21864, 59, 4831, 21036, 3776, 118>>,
    <<1, 1050, 1, 1048, 4, 29431, 23665, 5200, 237, 265, 138, 21517, 115>>,
    <<1, 1051, 1, 1049, 4, 19663, 6553, 13107, 118, 19073, 15746, 16951, 57>>,
    <<1, 1051, 1, 1047, 4, 28659, 32130, 29152, 116, 4619, 32511, 15177, 218>>,
    <<1, 1053, 1, 1048, 4, 26215, 19660, 6553, 29, 14893, 23581, 28045, 108>>,
    <<1, 1053, 1, 1049, 4, 28769, 31709, 1101, 29, 25441, 30647, 32141, 52>>,
    <<1, 1050, 1, 1048, 4, 9771, 17112, 24861, 230, 12307, 18864, 14941, 102>>,
    <<1, 1051, 1, 1050, 4, 26217, 19660, 6553, 115, 31013, 2424, 13021, 25>>,
    <<1, 1050, 1, 1047, 4, 19665, 6553, 13107, 230, 18723, 19399, 5864, 203>>,
    <<1, 1051, 1, 1047, 4, 2445, 12470, 22599, 113, 3763, 27208, 19508, 187>>,
    <<1, 1050, 1, 1047, 4, 26219, 19660, 6553, 227, 25505, 17096, 20187, 186>>,
    <<1, 1052, 1, 1047, 4, 11663, 4437, 15311, 56, 26153, 13216, 5502, 179>>,
    <<1, 1050, 1, 1047, 4, 22879, 10558, 11754, 224, 11723, 5553, 11188, 170>>,
    <<1, 1050, 1, 1048, 4, 5, 0, 0, 224, 1299, 17005, 3089, 84>>,
    <<1, 1052, 1, 1052, 4, 1, 0, 0, 56, 26705, 3110, 8385, 5>>,
    <<1, 1051, 1, 1047, 4, 8999, 25577, 16045, 110, 21153, 6549, 8149, 149>>,
    <<1, 1051, 1, 1048, 4, 19663, 6553, 13107, 110, 3437, 7128, 1320, 74>>,
    <<1, 1054, 1, 1050, 4, 24215, 19131, 23488, 13, 27111, 15740, 13391, 17>>,
    <<1, 1050, 1, 1050, 4, 3219, 4005, 31415, 217, 9481, 26633, 4013, 16>>,
    <<1, 1053, 1, 1046, 4, 26215, 19660, 6553, 27, 4417, 13780, 32310, 252>>,
    <<1, 1050, 1, 1046, 4, 13111, 26214, 19660, 217, 4403, 13780, 32310, 252>>,
    <<1, 1051, 1, 1046, 4, 15553, 5916, 9492, 107, 20435, 1973, 29619, 209>>,
    <<1, 1050, 1, 1046, 4, 19665, 6553, 13107, 214, 2359, 18539, 9278, 207>>,
    <<1, 1052, 1, 1046, 4, 18217, 17544, 8757, 53, 28105, 16742, 20883, 187>>,
    <<1, 1050, 1, 1047, 4, 16327, 30219, 18307, 211, 16707, 854, 15611, 82>>,
    <<1, 1050, 1, 1046, 4, 26219, 19660, 6553, 211, 2511, 24530, 16684, 159>>,
    <<1, 1051, 1, 1046, 4, 13109, 26214, 19660, 105, 2495, 24530, 16684, 159>>,
    <<1, 1051, 1, 1050, 4, 22107, 19023, 2938, 104, 13159, 21177, 1929, 7>>,
    <<1, 1052, 1, 1045, 4, 1, 0, 0, 52, 19385, 397, 9269, 220>>,
    <<1, 1053, 1, 1046, 4, 2555, 12049, 27316, 25, 23383, 2069, 8366, 89>>,
    <<1, 1050, 1, 1046, 4, 29435, 23665, 5200, 205, 19925, 28420, 12111, 65>>,
    <<1, 1051, 1, 1044, 4, 19663, 6553, 13107, 102, 11051, 24170, 22700, 238>>,
    <<1, 1050, 1, 1044, 4, 6557, 13107, 26214, 204, 10987, 24170, 22700, 238>>,
    <<1, 1051, 1, 1042, 4, 28661, 32130, 29152, 100, 23621, 27149, 21164, 183>>,
    <<1, 1050, 1, 1043, 4, 13111, 26214, 19660, 201, 8511, 17099, 28499, 68>>,
    <<1, 1052, 0, 1042, 4, 24771, 30651, 2203, 50, 17343, 20616, 31466, 202>>,
    <<1, 1050, 0, 1044, 4, 9775, 17112, 24861, 198, 32555, 15528, 9129, 147>>,
    <<1, 1050, 0, 1045, 4, 19665, 6553, 13107, 198, 26127, 23486, 2737, 85>>,
    <<1, 1054, 0, 1045, 4, 19661, 6553, 13107, 12, 26159, 23486, 2737, 85>>,
    <<1, 1051, 0, 1045, 4, 2447, 12470, 22599, 97, 11163, 28067, 29101, 180>>,
    <<1, 1051, 0, 1046, 4, 13109, 26214, 19660, 97, 32127, 22323, 8755, 93>>,
    <<1, 1056, 0, 1045, 4, 10969, 30997, 956, 3, 7077, 15275, 7840, 228>>,
    <<1, 1050, 0, 1047, 4, 22883, 10558, 11754, 192, 19359, 16428, 25248, 68>>,
    <<1, 1052, 0, 1046, 4, 1, 0, 0, 48, 8835, 5473, 1990, 143>>,
    <<1, 1050, 0, 1047, 4, 3, 0, 0, 192, 20809, 2736, 17379, 71>>,
    <<1, 1051, 0, 1047, 4, 9001, 25577, 16045, 94, 10601, 7386, 12456, 94>>,
    <<1, 1050, 0, 1046, 4, 6557, 13107, 26214, 188, 15599, 18455, 13921, 191>>,
    <<1, 1052, 0, 1046, 4, 31325, 10990, 28418, 46, 12175, 27672, 152, 211>>,
    <<1, 1050, 0, 1046, 4, 3223, 4005, 31415, 185, 7045, 31529, 25529, 232>>,
    <<1, 1050, 0, 1046, 4, 13111, 26214, 19660, 185, 24479, 3869, 28715, 237>>,
    <<1, 1051, 0, 1047, 4, 6555, 13107, 26214, 92, 28631, 18318, 30741, 118>>,
    <<1, 1051, 0, 1049, 4, 15555, 5916, 9492, 91, 7811, 23440, 30929, 34>>,
    <<1, 1054, 0, 1049, 4, 19661, 6553, 13107, 11, 12771, 9405, 7991, 35>>,
    <<1, 1053, 0, 1049, 4, 9109, 25156, 20762, 22, 13495, 8549, 14244, 37>>,
    <<1, 1050, 0, 1047, 4, 16331, 30219, 18307, 179, 23913, 5825, 12075, 159>>,
    <<1, 1051, 0, 1048, 4, 13109, 26214, 19660, 89, 31441, 6038, 26284, 80>>,
    <<1, 1050, 0, 1050, 4, 26217, 19660, 6553, 179, 24245, 1509, 6571, 20>>,
    <<1, 1053, 0, 1052, 4, 30103, 21139, 734, 22, 27721, 714, 20069, 5>>,
    <<1, 1050, 0, 1048, 4, 3, 0, 0, 176, 22563, 19978, 10130, 90>>,
    <<1, 1052, 0, 1048, 4, 5111, 24098, 21864, 43, 22673, 22452, 92, 94>>,
    <<1, 1050, 0, 1049, 4, 29439, 23665, 5200, 173, 11331, 10250, 32718, 48>>,
    <<1, 1050, 0, 1047, 4, 6557, 13107, 26214, 172, 1377, 11876, 27122, 197>>,
    <<1, 1052, 0, 1048, 4, 26215, 19660, 6553, 43, 691, 5938, 29945, 98>>,
    <<1, 1052, 0, 1047, 4, 14331, 16065, 14576, 42, 1235, 20313, 8574, 212>>,
    <<1, 1051, 0, 1048, 4, 6555, 13107, 26214, 84, 2327, 21692, 17374, 106>>,
    <<1, 1054, 0, 1047, 4, 30769, 32238, 16934, 10, 30609, 7771, 25471, 218>>,
    <<1, 1050, 0, 1047, 4, 9779, 17112, 24861, 166, 13349, 10627, 26401, 224>>,
    <<1, 1054, 0, 1049, 4, 19661, 6553, 13107, 10, 2355, 22877, 17730, 56>>,
    <<1, 1050, 0, 1051, 4, 19663, 6553, 13107, 166, 8781, 22103, 4432, 14>>,
    <<1, 1051, 0, 1047, 4, 2447, 12470, 22599, 81, 27375, 2185, 15155, 236>>,
    <<1, 1050, 0, 1047, 4, 26217, 19660, 6553, 163, 8883, 14768, 280, 237>>,
    <<1, 1052, 0, 1050, 4, 11665, 4437, 15311, 40, 9829, 15866, 3387, 30>>,
    <<1, 1050, 0, 1050, 4, 22887, 10558, 11754, 160, 11955, 20262, 19067, 30>>,
    <<1, 1050, 0, 1049, 4, 3, 0, 0, 160, 9803, 31472, 12161, 61>>,
    <<1, 1051, 0, 1047, 4, 1, 0, 0, 80, 6447, 27585, 15879, 245>>,
    <<1, 1051, 0, 1050, 4, 9001, 25577, 16045, 78, 29105, 29223, 13255, 31>>,
    <<1, 1052, 0, 1047, 4, 26215, 19660, 6553, 39, 27553, 27717, 16641, 251>>,
    <<1, 1053, 0, 1048, 4, 15663, 5495, 14209, 19, 26555, 8232, 20901, 126>>,
    <<1, 1050, 0, 1049, 4, 3227, 4005, 31415, 153, 15001, 13288, 22536, 63>>,
    <<1, 1051, 0, 1048, 4, 6555, 13107, 26214, 76, 7935, 6668, 16681, 127>>,
    <<1, 1050, 0, 1047, 4, 13109, 26214, 19660, 153, 15871, 13336, 594, 255>>,
    <<1, 1052, 0, 1048, 4, 7777, 2958, 21130, 37, 3615, 15778, 32671, 127>>,
    <<1, 1050, 0, 1047, 4, 19663, 6553, 13107, 150, 27731, 7791, 32124, 255>>,
    <<1, 1052, 0, 1047, 4, 18219, 17544, 8757, 37, 14129, 22785, 20548, 255>>,
    <<1, 1050, 0, 1047, 4, 16335, 30219, 18307, 147, 15041, 18800, 22634, 254>>,
    <<1, 1050, 0, 1049, 4, 26217, 19660, 6553, 147, 31535, 2478, 19537, 63>>,
    <<1, 1053, 0, 1047, 4, 19661, 6553, 13107, 18, 27835, 9915, 12612, 254>>,
    <<1, 1053, 0, 1047, 4, 30103, 21139, 734, 18, 1237, 5174, 17899, 250>>,
    <<1, 1051, 0, 1049, 4, 1, 0, 0, 72, 20513, 7907, 18413, 62>>,
    <<1, 1050, 0, 1047, 4, 20447, 30856, 21922, 142, 30743, 23073, 25802, 247>>,
    <<1, 1050, 0, 1048, 4, 29443, 23665, 5200, 141, 9771, 8858, 7811, 122>>,
    <<1, 1052, 0, 1049, 4, 26215, 19660, 6553, 35, 19005, 6306, 29574, 60>>,
    <<1, 1050, 0, 1048, 4, 6555, 13107, 26214, 140, 5241, 12613, 26380, 121>>,
    <<1, 1051, 0, 1047, 4, 28661, 32130, 29152, 68, 12387, 19044, 3600, 235>>,
    <<1, 1050, 0, 1049, 4, 13109, 26214, 19660, 137, 25227, 7424, 20795, 58>>,
    <<1, 1051, 0, 1047, 4, 16777, 28535, 4407, 68, 10757, 30218, 2269, 230>>,
    <<1, 1050, 0, 1047, 4, 9783, 17112, 24861, 134, 11887, 20908, 16916, 224>>,
    <<1, 1050, 0, 1047, 4, 19663, 6553, 13107, 134, 4831, 16288, 4043, 223>>,
    <<1, 1051, 0, 1049, 4, 26215, 19660, 6553, 67, 1207, 28648, 25586, 55>>,
    <<1, 1051, 0, 1048, 4, 2447, 12470, 22599, 65, 25039, 10212, 4922, 105>>,
    <<1, 1053, 0, 1048, 4, 19661, 6553, 13107, 16, 25697, 31458, 24230, 104>>,
    <<1, 1050, 0, 1049, 4, 13893, 17749, 28476, 129, 29257, 4849, 26042, 50>>,
    <<1, 1050, 0, 1048, 4, 22891, 10558, 11754, 128, 25631, 6708, 26296, 97>>,
    <<1, 1051, 0, 1047, 4, 1, 0, 0, 64, 7865, 15288, 24295, 193>>,
    <<1, 1050, 0, 1049, 4, 1, 0, 0, 128, 1965, 28398, 14265, 48>>,
    <<1, 1049, 0, 1047, 4, 3233, 4005, 31415, 249, 7067, 8944, 3505, 177>>,
    <<1, 1050, 0, 1049, 4, 6555, 13107, 26214, 124, 27893, 5775, 558, 44>>,
    <<1, 1053, 0, 1047, 4, 15663, 5495, 14209, 15, 2593, 1242, 6179, 168>>,
    <<1, 1050, 0, 1047, 4, 3231, 4005, 31415, 121, 9739, 9079, 29346, 158>>,
    <<1, 1049, 0, 1047, 4, 26217, 19660, 6553, 243, 16551, 32729, 20827, 156>>,
    <<1, 1049, 0, 1047, 4, 29447, 23665, 5200, 237, 2421, 1076, 27945, 136>>,
    <<1, 1051, 0, 1047, 4, 26215, 19660, 6553, 59, 6983, 22620, 20907, 135>>,
    <<1, 1050, 0, 1046, 4, 7339, 4642, 2262, 117, 4405, 13780, 32310, 252>>,
    <<1, 1050, 0, 1049, 4, 16339, 30219, 18307, 115, 3913, 15024, 31551, 28>>,
    <<1, 1049, 0, 1046, 4, 19663, 6553, 13107, 230, 20991, 2017, 18693, 226>>,
    <<1, 1049, 0, 1047, 4, 22893, 10558, 11754, 224, 7131, 6351, 4678, 91>>,
    <<1, 1049, 0, 1047, 4, 3, 0, 0, 224, 12571, 32442, 26230, 89>>,
    <<1, 1051, 0, 1047, 4, 10223, 15428, 10961, 55, 1249, 12265, 24726, 79>>,
    <<1, 1051, 0, 1047, 4, 31107, 11832, 18984, 54, 28413, 198, 6186, 68>>,
    <<1, 1049, 0, 1048, 4, 13109, 26214, 19660, 217, 21279, 2175, 23241, 32>>,
    <<1, 1049, 0, 1046, 4, 16339, 30219, 18307, 211, 685, 25252, 19604, 83>>,
    <<1, 1049, 0, 1046, 4, 26217, 19660, 6553, 211, 1627, 19127, 25093, 80>>,
    <<1, 1050, 0, 1046, 4, 785, 24303, 8815, 104, 19133, 6042, 22059, 59>>,
    <<1, 1050, 0, 1045, 4, 9785, 17112, 24861, 102, 5321, 6853, 7549, 71>>,
    <<1, 1051, 0, 1044, 4, 26215, 19660, 6553, 51, 5849, 14824, 18030, 119>>,
    <<1, 1049, 0, 1044, 4, 6555, 13107, 26214, 204, 5817, 14824, 18030, 119>>,
    <<1, 1049, 1, 1044, 4, 9785, 17112, 24861, 198, 13363, 4896, 22512, 73>>,
    <<1, 1049, 1, 1044, 4, 19663, 6553, 13107, 198, 2007, 664, 5151, 85>>,
    <<1, 1052, 1, 1044, 4, 11665, 4437, 15311, 24, 19541, 14205, 5475, 170>>,
    <<1, 1052, 1, 1045, 4, 22107, 19023, 2938, 24, 1823, 29449, 4393, 133>>,
    <<1, 1050, 1, 1047, 4, 1, 0, 0, 96, 13647, 14043, 4152, 36>>,
    <<1, 1049, 1, 1045, 4, 1, 0, 0, 192, 21835, 23405, 16609, 144>>,
    <<1, 1049, 1, 1045, 4, 3231, 4005, 31415, 185, 9971, 30309, 13590, 239>>,
    <<1, 1049, 1, 1047, 4, 13109, 26214, 19660, 185, 3121, 27428, 8120, 61>>,
    <<1, 1050, 1, 1050, 4, 26999, 11195, 15369, 91, 2601, 12630, 30844, 8>>,
    <<1, 1050, 1, 1046, 4, 3231, 4005, 31415, 89, 1737, 6346, 3128, 166>>,
    <<1, 1052, 1, 1046, 4, 19661, 6553, 13107, 22, 26041, 18107, 16840, 171>>,
    <<1, 1049, 1, 1052, 4, 26215, 19660, 6553, 179, 30615, 4378, 22279, 2>>,
    <<1, 1049, 1, 1046, 4, 29445, 23665, 5200, 173, 26223, 11199, 7230, 216>>,
    <<1, 1049, 1, 1046, 4, 6555, 13107, 26214, 172, 9989, 18505, 26820, 218>>,
    <<1, 1051, 1, 1048, 4, 3669, 2321, 17515, 42, 14315, 25543, 15370, 59>>,
    <<1, 1051, 1, 1048, 4, 24553, 31493, 25537, 41, 2513, 28717, 24593, 64>>,
    <<1, 1050, 1, 1050, 4, 26215, 19660, 6553, 83, 4279, 12008, 16254, 16>>,
    <<1, 1049, 1, 1047, 4, 19661, 6553, 13107, 166, 1467, 30529, 31730, 131>>,
    <<1, 1049, 1, 1047, 4, 22891, 10558, 11754, 160, 577, 31313, 1865, 152>>,
    <<1, 1049, 1, 1047, 4, 1, 0, 0, 160, 19117, 7071, 6844, 153>>,
    <<1, 1050, 1, 1047, 4, 20445, 30856, 21922, 78, 30119, 12077, 19800, 161>>,
    <<1, 1050, 1, 1047, 4, 29445, 23665, 5200, 77, 32753, 25676, 25940, 170>>,
    <<1, 1051, 1, 1050, 4, 19661, 6553, 13107, 38, 31283, 15728, 20146, 21>>,
    <<1, 1049, 1, 1047, 4, 13107, 26214, 19660, 153, 20891, 27527, 30099, 172>>,
    <<1, 1049, 1, 1048, 4, 16337, 30219, 18307, 147, 32361, 2028, 31810, 94>>,
    <<1, 1049, 1, 1048, 4, 26215, 19660, 6553, 147, 6033, 11608, 14754, 95>>,
    <<1, 1054, 1, 1047, 4, 30769, 32238, 16934, 4, 1381, 11876, 27122, 197>>,
    <<1, 1053, 1, 1049, 4, 1223, 22619, 27683, 8, 25281, 24485, 10430, 51>>,
    <<1, 1050, 1, 1050, 4, 19661, 6553, 13107, 70, 23265, 30314, 28569, 25>>,
    <<1, 1049, 1, 1048, 4, 6553, 13107, 26214, 140, 27525, 22954, 15975, 103>>,
    <<1, 1049, 1, 1048, 4, 9783, 17112, 24861, 134, 18335, 14559, 4157, 110>>,
    <<1, 1049, 1, 1047, 4, 19661, 6553, 13107, 134, 29435, 32726, 32164, 220>>,
    <<1, 1050, 1, 1047, 4, 13891, 17749, 28476, 65, 9423, 25972, 5386, 226>>,
    <<1, 1050, 1, 1047, 4, 22891, 10558, 11754, 64, 7461, 1721, 18721, 231>>,
    <<1, 1101, 1, 1048, 1, 1, 23075, 27345, 12781, 116>>,
    <<1, 1048, 1, 1047, 4, 32767, 32767, 32767, 255, 13383, 21923, 25563, 232>>,
    <<1, 1049, 1, 1048, 4, 3229, 4005, 31415, 121, 27897, 27509, 29247, 120>>,
    <<1, 1048, 1, 1050, 4, 26213, 19660, 6553, 243, 18187, 18374, 9227, 30>>,
    <<1, 1051, 1, 1048, 4, 29883, 21981, 24068, 29, 19607, 30176, 24323, 122>>,
    <<1, 1051, 1, 1048, 4, 17999, 18386, 32091, 28, 13937, 5840, 10442, 124>>,
    <<1, 1050, 1, 1047, 4, 13107, 26214, 19660, 57, 5617, 890, 9994, 249>>,
    <<1, 1051, 1, 1049, 4, 15553, 5916, 9492, 27, 20591, 23021, 13740, 63>>,
    <<1, 1049, 1, 1047, 4, 6553, 13107, 26214, 108, 6327, 11871, 28383, 253>>,
    <<1, 1050, 1, 1047, 4, 7337, 4642, 2262, 53, 15871, 13336, 594, 255>>,
    <<1, 1050, 1, 1048, 4, 16337, 30219, 18307, 51, 15525, 9697, 29343, 127>>,
    <<1, 1048, 1, 1048, 4, 6553, 13107, 26214, 204, 8547, 18400, 30979, 127>>,
    <<1, 1051, 1, 1048, 4, 13107, 26214, 19660, 25, 8547, 18400, 30979, 127>>,
    <<1, 1050, 1, 1047, 4, 11445, 5279, 5877, 48, 31793, 27704, 14948, 255>>,
    <<1, 1048, 1, 1047, 4, 32767, 32767, 32767, 191, 28043, 13912, 11754, 255>>,
    <<1, 1052, 1, 1047, 4, 5111, 24098, 21864, 11, 27835, 9915, 12612, 254>>,
    <<1, 1052, 1, 1048, 4, 15553, 5916, 9492, 11, 18625, 9214, 12239, 126>>,
    <<1, 1049, 1, 1048, 4, 13107, 26214, 19660, 89, 28801, 24388, 4507, 126>>,
    <<1, 1053, 1, 1047, 4, 23549, 8032, 7288, 5, 26961, 30965, 1665, 247>>,
    <<1, 1050, 1, 1047, 4, 13107, 26214, 19660, 41, 7755, 29578, 21983, 246>>,
    <<1, 1050, 1, 1048, 4, 783, 24303, 8815, 40, 5241, 12613, 26380, 121>>,
    <<1, 1050, 1, 1049, 4, 9783, 17112, 24861, 38, 16815, 6125, 29711, 59>>,
    <<1, 1048, 1, 1049, 4, 13107, 26214, 19660, 153, 5489, 20749, 21315, 59>>,
    <<1, 1049, 1, 1049, 4, 6553, 13107, 26214, 76, 5489, 20749, 21315, 59>>,
    <<1, 1048, 1, 1049, 4, 31461, 23592, 1310, 151, 20929, 11407, 5727, 59>>,
    <<1, 1048, 1, 1047, 4, 17043, 20971, 15728, 148, 30663, 29250, 22989, 234>>,
    <<1, 1048, 1, 1047, 4, 2625, 18350, 30146, 145, 17801, 7031, 19994, 232>>,
    <<1, 1048, 1, 1052, 4, 20975, 15728, 11796, 143, 17251, 30484, 6579, 7>>,
    <<1, 1050, 1, 1047, 4, 4891, 24940, 12430, 35, 30131, 16716, 26094, 228>>,
    <<1, 1048, 1, 1048, 4, 6557, 13107, 26214, 140, 12701, 19501, 2442, 114>>,
    <<1, 1048, 1, 1047, 4, 6553, 13107, 26214, 140, 25399, 6234, 4885, 228>>,
    <<1, 1048, 1, 1048, 4, 24907, 10485, 7864, 138, 23839, 5152, 29183, 112>>,
    <<1, 1048, 1, 1048, 4, 10489, 7864, 22282, 135, 1859, 2917, 21676, 111>>,
    <<1, 1051, 1, 1049, 4, 23329, 8874, 30622, 16, 1207, 28648, 25586, 55>>,
    <<1, 1048, 1, 1048, 4, 28839, 5242, 3932, 133, 5025, 16382, 12705, 110>>,
    <<1, 1048, 1, 1048, 4, 14421, 2621, 18350, 130, 26755, 2781, 2288, 109>>,
    <<1, 1051, 1, 1048, 4, 11445, 5279, 5877, 16, 3877, 12680, 15622, 108>>,
    <<1, 1048, 1, 1047, 4, 3, 0, 0, 128, 3313, 7698, 13650, 215>>,
    <<1, 1100, 1, 1048, 1, 1, 1655, 3849, 23209, 107>>,
    <<1, 1047, 1, 1047, 4, 32767, 32767, 32767, 255, 3309, 7698, 13650, 215>>,
    <<1, 1047, 1, 1048, 4, 3939, 27525, 28835, 250, 21769, 14517, 9950, 106>>,
    <<1, 1047, 1, 1049, 4, 7871, 22282, 24903, 245, 6155, 7728, 14033, 52>>,
    <<1, 1047, 1, 1050, 4, 11803, 17039, 20971, 240, 28797, 1398, 27586, 25>>,
    <<1, 1047, 1, 1048, 4, 15735, 11796, 17039, 235, 13959, 1878, 27427, 101>>,
    <<1, 1051, 1, 1049, 4, 8999, 25577, 16045, 14, 14081, 11710, 11636, 50>>,
    <<1, 1047, 1, 1047, 4, 19667, 6553, 13107, 230, 10309, 12475, 17422, 200>>,
    <<1, 1049, 1, 1053, 4, 13107, 26214, 19660, 57, 30369, 7362, 4368, 3>>,
    <<1, 1051, 1, 1049, 4, 30147, 14417, 2621, 14, 933, 19050, 10724, 49>>,
    <<1, 1047, 1, 1049, 4, 23599, 1310, 9175, 225, 933, 19050, 10724, 49>>,
    <<1, 1049, 1, 1047, 4, 31459, 23592, 1310, 55, 23939, 6089, 252, 194>>,
    <<1, 1047, 1, 1048, 4, 27531, 28835, 5242, 220, 28353, 3044, 126, 97>>,
    <<1, 1050, 1, 1049, 4, 26997, 11195, 15369, 27, 1965, 28398, 14265, 48>>,
    <<1, 1050, 1, 1054, 4, 3933, 27525, 28835, 26, 24023, 30523, 16032, 1>>,
    <<1, 1047, 1, 1047, 4, 31463, 23592, 1310, 215, 27519, 7645, 20599, 190>>,
    <<1, 1049, 1, 1047, 4, 17041, 20971, 15728, 52, 5357, 24786, 5679, 187>>,
    <<1, 1047, 1, 1047, 4, 2627, 18350, 30146, 209, 5357, 24786, 5679, 187>>,
    <<1, 1050, 1, 1047, 4, 3229, 4005, 31415, 25, 28531, 3623, 20674, 185>>,
    <<1, 1052, 1, 1047, 4, 19661, 6553, 13107, 6, 32465, 1407, 21075, 183>>,
    <<1, 1047, 1, 1051, 4, 6559, 13107, 26214, 204, 32749, 6231, 15653, 11>>,
    <<1, 1048, 1, 1047, 4, 19661, 6553, 13107, 102, 32461, 1407, 21075, 183>>,
    <<1, 1047, 1, 1049, 4, 6553, 13107, 26214, 204, 32691, 24927, 29844, 45>>,
    <<1, 1049, 1, 1047, 4, 2623, 18350, 30146, 49, 19689, 11866, 1295, 180>>,
    <<1, 1047, 1, 1050, 4, 10491, 7864, 22282, 199, 10653, 30155, 16545, 22>>,
    <<1, 1050, 1, 1048, 4, 22283, 24903, 10485, 24, 13505, 31880, 5961, 88>>,
    <<1, 1047, 1, 1047, 4, 14423, 2621, 18350, 194, 27009, 30992, 11923, 176>>,
    <<1, 1049, 1, 1049, 4, 20973, 15728, 11796, 47, 16265, 7944, 5060, 43>>,
    <<1, 1047, 1, 1049, 4, 18355, 30146, 14417, 189, 16265, 7944, 5060, 43>>,
    <<1, 1051, 1, 1047, 4, 15729, 11796, 17039, 11, 15555, 17510, 26295, 168>>,
    <<1, 1047, 1, 1048, 4, 22287, 24903, 10485, 184, 7777, 25139, 13147, 84>>,
    <<1, 1050, 1, 1048, 4, 31105, 11832, 18984, 22, 22575, 22585, 238, 83>>,
    <<1, 1049, 1, 1047, 4, 6555, 13107, 26214, 44, 6589, 21132, 30137, 164>>,
    <<1, 1047, 1, 1049, 4, 26219, 19660, 6553, 179, 1647, 13475, 7534, 41>>,
    <<1, 1048, 1, 1050, 4, 13107, 26214, 19660, 89, 17207, 6737, 20151, 20>>,
    <<1, 1048, 1, 1048, 4, 31461, 23592, 1310, 87, 19417, 3139, 15909, 80>>,
    <<1, 1047, 1, 1051, 4, 30151, 14417, 2621, 174, 14715, 20872, 1988, 10>>,
    <<1, 1048, 1, 1048, 4, 17043, 20971, 15728, 84, 9043, 15227, 15694, 78>>,
    <<1, 1047, 1, 1047, 4, 1315, 9175, 31457, 168, 18083, 30454, 31388, 156>>,
    <<1, 1049, 1, 1050, 4, 14673, 9284, 4524, 42, 6165, 16379, 18987, 19>>,
    <<1, 1048, 1, 1047, 4, 2625, 18350, 30146, 81, 6317, 14974, 28902, 152>>,
    <<1, 1047, 1, 1047, 4, 5247, 3932, 27525, 163, 6315, 14974, 28902, 152>>,
    <<1, 1048, 1, 1047, 4, 20975, 15728, 11796, 79, 11981, 6421, 24412, 148>>,
    <<1, 1047, 1, 1048, 4, 9179, 31457, 23592, 158, 22373, 3210, 12206, 74>>,
    <<1, 1054, 1, 1047, 4, 23549, 8032, 7288, 1, 19145, 7736, 29747, 146>>,
    <<1, 1048, 1, 1048, 4, 6557, 13107, 26214, 76, 8367, 6053, 8986, 72>>,
    <<1, 1047, 1, 1049, 4, 13111, 26214, 19660, 153, 20567, 3026, 4493, 36>>,
    <<1, 1049, 1, 1048, 4, 19661, 6553, 13107, 38, 8365, 6053, 8986, 72>>,
    <<1, 1047, 1, 1047, 4, 13107, 26214, 19660, 153, 16729, 12106, 17972, 144>>,
    <<1, 1047, 1, 1048, 4, 17047, 20971, 15728, 148, 9197, 32446, 4818, 70>>,
    <<1, 1048, 1, 1048, 4, 24907, 10485, 7864, 74, 9197, 32446, 4818, 70>>,
    <<1, 1047, 1, 1047, 4, 17043, 20971, 15728, 148, 18391, 32124, 9637, 140>>,
    <<1, 1047, 1, 1050, 4, 20979, 15728, 11796, 143, 8331, 3233, 32701, 16>>,
    <<1, 1048, 1, 1050, 4, 10489, 7864, 22282, 71, 8331, 3233, 32701, 16>>,
    <<1, 1047, 1, 1047, 4, 20975, 15728, 11796, 143, 1109, 25866, 32232, 135>>,
    <<1, 1047, 1, 1050, 4, 24911, 10485, 7864, 138, 25337, 21678, 14822, 16>>,
    <<1, 1048, 1, 1047, 4, 28839, 5242, 3932, 69, 6087, 9590, 20277, 131>>,
    <<1, 1047, 1, 1049, 4, 24907, 10485, 7864, 138, 17905, 10589, 29645, 32>>,
    <<1, 1047, 1, 1047, 4, 28843, 5242, 3932, 133, 17457, 22916, 6596, 127>>,
    <<1, 1048, 1, 1051, 4, 14421, 2621, 18350, 66, 9283, 9624, 31132, 7>>,
    <<1, 1047, 1, 1046, 4, 28839, 5242, 3932, 133, 2139, 13065, 13193, 254>>,
    <<1, 1052, 1, 1046, 4, 27437, 9511, 1469, 4, 2317, 4896, 32126, 247>>,
    <<1, 1047, 1, 1048, 4, 7, 0, 0, 128, 16767, 14885, 12008, 61>>,
    <<1, 1048, 1, 1047, 4, 3, 0, 0, 64, 765, 29771, 24016, 122>>,
    <<1, 1047, 1, 1046, 4, 3, 0, 0, 128, 1525, 26774, 15265, 245>>,
    <<1, 1099, 1, 1050, 1, 1, 12383, 3721, 11194, 15>>,
    <<1, 1047, 1, 1046, 4, 3939, 27525, 28835, 122, 11073, 31862, 14120, 236>>,
    <<1, 1046, 1, 1047, 4, 7875, 22282, 24903, 245, 5535, 15931, 7060, 118>>,
    <<1, 1047, 1, 1047, 4, 3935, 27525, 28835, 122, 5533, 15931, 7060, 118>>,
    <<1, 1047, 1, 1048, 4, 7871, 22282, 24903, 117, 7099, 10513, 27045, 56>>,
    <<1, 1046, 1, 1046, 4, 15739, 11796, 17039, 235, 28393, 9284, 9877, 227>>,
    <<1, 1047, 1, 1048, 4, 7867, 22282, 24903, 117, 7097, 10513, 27045, 56>>,
    <<1, 1049, 1, 1046, 4, 8119, 28945, 11077, 29, 20993, 2017, 18693, 226>>,
    <<1, 1047, 1, 1046, 4, 11803, 17039, 20971, 112, 12397, 13380, 2654, 218>>,
    <<1, 1046, 1, 1047, 4, 23603, 1310, 9175, 225, 6197, 6690, 1327, 109>>,
    <<1, 1047, 1, 1046, 4, 11799, 17039, 20971, 112, 12389, 13380, 2654, 218>>,
    <<1, 1047, 1, 1046, 4, 15735, 11796, 17039, 107, 3407, 6463, 25341, 208>>,
    <<1, 1046, 1, 1046, 4, 31467, 23592, 1310, 215, 3405, 6463, 25341, 208>>,
    <<1, 1047, 1, 1049, 4, 15731, 11796, 17039, 107, 29097, 21287, 3167, 26>>,
    <<1, 1050, 1, 1046, 4, 29443, 23665, 5200, 13, 21753, 22741, 21492, 204>>,
    <<1, 1047, 1, 1047, 4, 19667, 6553, 13107, 102, 13243, 26923, 22645, 99>>,
    <<1, 1046, 1, 1046, 4, 6563, 13107, 26214, 204, 26483, 21078, 12523, 199>>,
    <<1, 1047, 1, 1047, 4, 19663, 6553, 13107, 102, 13239, 26923, 22645, 99>>,
    <<1, 1047, 1, 1046, 4, 19661, 6553, 13107, 102, 26475, 21078, 12523, 199>>,
    <<1, 1051, 1, 1047, 4, 30147, 14417, 2621, 6, 30371, 13666, 31314, 94>>,
    <<1, 1046, 1, 1046, 4, 14427, 2621, 18350, 194, 27969, 27333, 29860, 189>>,
    <<1, 1047, 1, 1046, 4, 23595, 1310, 9175, 97, 27965, 27333, 29860, 189>>,
    <<1, 1049, 1, 1047, 4, 31459, 23592, 1310, 23, 31435, 14792, 5970, 90>>,
    <<1, 1046, 1, 1047, 4, 22291, 24903, 10485, 184, 31433, 14792, 5970, 90>>,
    <<1, 1047, 1, 1046, 4, 27527, 28835, 5242, 92, 30093, 29585, 11940, 180>>,
    <<1, 1050, 1, 1046, 4, 3933, 27525, 28835, 10, 533, 32049, 24424, 170>>,
    <<1, 1046, 1, 1050, 4, 30155, 14417, 2621, 174, 2081, 18387, 22006, 10>>,
    <<1, 1047, 1, 1046, 4, 31459, 23592, 1310, 87, 523, 32049, 24424, 170>>,
    <<1, 1049, 1, 1046, 4, 17041, 20971, 15728, 20, 15175, 4385, 1903, 161>>,
    <<1, 1046, 1, 1047, 4, 5251, 3932, 27525, 163, 23969, 18576, 17335, 80>>,
    <<1, 1047, 1, 1046, 4, 2623, 18350, 30146, 81, 15165, 4385, 1903, 161>>,
    <<1, 1050, 1, 1047, 4, 24551, 31493, 25537, 9, 30259, 10734, 745, 77>>,
    <<1, 1052, 1, 1052, 4, 19661, 6553, 13107, 2, 27369, 27821, 11932, 2>>,
    <<1, 1046, 1, 1046, 4, 13115, 26214, 19660, 153, 14907, 11125, 10038, 151>>,
    <<1, 1047, 1, 1047, 4, 6555, 13107, 26214, 76, 23835, 5562, 21403, 75>>,
    <<1, 1046, 1, 1046, 4, 13109, 26214, 19660, 153, 14901, 11125, 10038, 151>>,
    <<1, 1049, 1, 1046, 4, 2623, 18350, 30146, 17, 29845, 13394, 16190, 141>>,
    <<1, 1046, 1, 1046, 4, 20979, 15728, 11796, 143, 29841, 13394, 16190, 141>>,
    <<1, 1047, 1, 1048, 4, 10487, 7864, 22282, 71, 23843, 19732, 12239, 35>>,
    <<1, 1050, 1, 1049, 4, 22283, 24903, 10485, 8, 1017, 32557, 14848, 16>>,
    <<1, 1046, 1, 1048, 4, 28843, 5242, 3932, 133, 2033, 32346, 29697, 32>>,
    <<1, 1047, 1, 1046, 4, 14419, 2621, 18350, 66, 8127, 31080, 20487, 131>>,
    <<1, 1049, 1, 1047, 4, 1565, 15838, 17631, 16, 9791, 4351, 13714, 65>>,
    <<1, 1049, 1, 1045, 4, 20973, 15728, 11796, 15, 17363, 20141, 13352, 243>>,
    <<1, 1046, 1, 1046, 4, 3939, 27525, 28835, 122, 25061, 10070, 23060, 121>>,
    <<1, 1047, 1, 1051, 4, 18351, 30146, 14417, 61, 23311, 20794, 26320, 3>>,
    <<1, 1051, 1, 1045, 4, 15729, 11796, 17039, 3, 19341, 1574, 15307, 223>>,
    <<1, 1046, 1, 1047, 4, 11803, 17039, 20971, 112, 21217, 24969, 28402, 55>>,
    <<1, 1047, 1, 1046, 4, 22283, 24903, 10485, 56, 9661, 17171, 24037, 111>>,
    <<1, 1051, 1, 1047, 4, 4891, 24940, 12430, 3, 11299, 21168, 21908, 53>>,
    <<1, 1049, 1, 1046, 4, 6555, 13107, 26214, 12, 26985, 9021, 23550, 101>>,
    <<1, 1046, 1, 1048, 4, 19667, 6553, 13107, 102, 14937, 18639, 14079, 25>>,
    <<1, 1047, 1, 1046, 4, 26215, 19660, 6553, 51, 26975, 9021, 23550, 101>>,
    <<1, 1046, 1, 1047, 4, 19661, 6553, 13107, 102, 29871, 4510, 28159, 50>>,
    <<1, 1050, 1, 1046, 4, 7865, 22282, 24903, 5, 24109, 26992, 21729, 91>>,
    <<1, 1046, 1, 1045, 4, 27531, 28835, 5242, 92, 15441, 21217, 10691, 183>>,
    <<1, 1047, 1, 1045, 4, 30147, 14417, 2621, 46, 15431, 21217, 10691, 183>>,
    <<1, 1049, 1, 1045, 4, 24905, 10485, 7864, 10, 25667, 30480, 4647, 163>>,
    <<1, 1046, 1, 1045, 4, 2627, 18350, 30146, 81, 25657, 30480, 4647, 163>>,
    <<1, 1047, 1, 1049, 4, 1311, 9175, 31457, 40, 1603, 16241, 6434, 10>>,
    <<1, 1054, 1, 1045, 3, 23593, 1310, 9175, 13699, 31175, 29233, 142>>,
    <<1, 1046, 1, 1045, 4, 10491, 7864, 22282, 71, 13689, 31175, 29233, 142>>,
    <<1, 1047, 1, 1045, 4, 5243, 3932, 27525, 35, 13679, 31175, 29233, 142>>,
    <<1, 1049, 1, 1046, 4, 10487, 7864, 22282, 7, 14717, 18334, 9589, 61>>,
    <<1, 1046, 1, 1049, 4, 18355, 30146, 14417, 61, 26415, 22771, 21678, 7>>,
    <<1, 1045, 1, 1044, 4, 3933, 27525, 28835, 122, 26063, 7801, 5590, 245>>,
    <<1, 1051, 1, 1047, 4, 2445, 12470, 22599, 1, 22823, 12993, 32264, 26>>,
    <<1, 1050, 1, 1045, 4, 26215, 19660, 6553, 3, 26025, 19339, 7517, 102>>,
    <<1, 1046, 1, 1045, 4, 26219, 19660, 6553, 51, 26015, 19339, 7517, 102>>,
    <<1, 1046, 1, 1045, 4, 26215, 19660, 6553, 51, 26007, 19339, 7517, 102>>,
    <<1, 1044, 1, 1044, 4, 6555, 13107, 26214, 204, 19245, 5911, 15035, 204>>,
    <<1, 1049, 1, 1045, 4, 28837, 5242, 3932, 5, 8733, 5393, 27284, 81>>,
    <<1, 1046, 1, 1045, 4, 1315, 9175, 31457, 40, 8723, 5393, 27284, 81>>,
    <<1, 1046, 1, 1044, 4, 1311, 9175, 31457, 40, 17431, 10786, 21800, 163>>,
    <<1, 1051, 1, 1044, 3, 1311, 9175, 31457, 12143, 11656, 26420, 122>>,
    <<1, 1046, 1, 1044, 4, 9179, 31457, 23592, 30, 12123, 11656, 26420, 122>>,
    <<1, 1044, 1, 1046, 4, 3933, 27525, 28835, 122, 3027, 2914, 22989, 30>>,
    <<1, 1049, 1, 1045, 4, 27779, 2730, 24185, 3, 2913, 7412, 25399, 59>>,
    <<1, 1049, 1, 1049, 4, 14419, 2621, 18350, 2, 10701, 23336, 18327, 2>>,
    <<1, 1046, 1, 1046, 4, 17043, 20971, 15728, 20, 20067, 22850, 15549, 20>>,
    <<1, 1045, 1, 1045, 4, 1311, 9175, 31457, 40, 7359, 12933, 31099, 40>>,
    <<1, 1050, 1, 1044, 3, 11797, 17039, 20971, 22075, 26322, 31367, 40>>,
    <<1, 1046, 1, 1044, 4, 24907, 10485, 7864, 10, 22055, 26322, 31367, 40>>,
    <<1, 1044, 1, 1045, 4, 1311, 9175, 31457, 40, 11021, 29545, 15683, 20>>,
    <<1, 1050, 1, 1041, 3, 22889, 10558, 11754, 26681, 30785, 21542, 183>>,
    <<1, 1049, 1, 1049, 1, 1, 1>>, <<1, 1046, 1, 1046, 1, 3, 3>>,
    <<1, 1047, 1, 1047, 1, 1, 1>>, <<0, 1100, 0, 1100, 0>>,
    <<0, 1052, 0, 1044, 3, 27525, 28835, 5242, 22011, 26322, 31367, 40>>,
    <<0, 1046, 0, 1044, 4, 24901, 10485, 7864, 10, 22031, 26322, 31367, 40>>,
    <<0, 1049, 0, 1049, 4, 14417, 2621, 18350, 2, 10699, 23336, 18327, 2>>,
    <<0, 1046, 0, 1046, 4, 17037, 20971, 15728, 20, 20061, 22850, 15549, 20>>,
    <<0, 1050, 0, 1044, 4, 2621, 18350, 30146, 1, 12079, 11656, 26420, 122>>,
    <<0, 1046, 0, 1044, 4, 9173, 31457, 23592, 30, 12099, 11656, 26420, 122>>,
    <<0, 1049, 0, 1044, 4, 28835, 5242, 3932, 5, 17403, 10786, 21800, 163>>,
    <<0, 1046, 0, 1044, 4, 1309, 9175, 31457, 40, 17423, 10786, 21800, 163>>,
    <<0, 1048, 0, 1044, 4, 26315, 24757, 2705, 12, 871, 23547, 1120, 193>>,
    <<0, 1051, 0, 1045, 4, 13107, 26214, 19660, 1, 25993, 19339, 7517, 102>>,
    <<0, 1046, 0, 1045, 4, 26213, 19660, 6553, 51, 26003, 19339, 7517, 102>>,
    <<0, 1047, 0, 1045, 4, 13107, 26214, 19660, 25, 26005, 19339, 7517, 102>>,
    <<0, 1049, 0, 1044, 4, 10485, 7864, 22282, 7, 26037, 7801, 5590, 245>>,
    <<0, 1046, 0, 1044, 4, 18349, 30146, 14417, 61, 26057, 7801, 5590, 245>>,
    <<0, 1050, 0, 1045, 4, 17039, 20971, 15728, 4, 13667, 31175, 29233, 142>>,
    <<0, 1046, 0, 1045, 4, 10485, 7864, 22282, 71, 13677, 31175, 29233, 142>>,
    <<0, 1049, 0, 1045, 4, 11543, 10376, 2029, 9, 21831, 23405, 16609, 144>>,
    <<0, 1049, 0, 1047, 4, 24903, 10485, 7864, 10, 6409, 32196, 25737, 40>>,
    <<0, 1046, 0, 1046, 4, 2621, 18350, 30146, 81, 12823, 31624, 18707, 81>>,
    <<0, 1053, 0, 1045, 3, 9175, 31457, 23592, 15419, 21217, 10691, 183>>,
    <<0, 1045, 0, 1047, 4, 22281, 24903, 10485, 184, 12049, 29880, 27248, 45>>,
    <<0, 1052, 0, 1047, 4, 23769, 7190, 16722, 1, 15163, 6963, 1432, 48>>,
    <<0, 1049, 0, 1045, 4, 6553, 13107, 26214, 12, 21171, 18043, 14332, 203>>,
    <<0, 1048, 0, 1046, 4, 13107, 26214, 19660, 25, 26973, 9021, 23550, 101>>,
    <<0, 1050, 0, 1046, 4, 31457, 23592, 1310, 7, 9655, 17171, 24037, 111>>,
    <<0, 1048, 0, 1046, 4, 27525, 28835, 5242, 28, 9659, 17171, 24037, 111>>,
    <<0, 1049, 0, 1047, 4, 20971, 15728, 11796, 15, 12525, 5035, 27914, 60>>,
    <<0, 1048, 0, 1047, 4, 9175, 31457, 23592, 30, 12527, 5035, 27914, 60>>,
    <<0, 1098, 0, 1045, 1, 1, 5495, 10726, 11195, 253>>,
    <<0, 1051, 0, 1046, 4, 27525, 28835, 5242, 4, 8121, 31080, 20487, 131>>,
    <<0, 1048, 0, 1046, 4, 23593, 1310, 9175, 33, 8125, 31080, 20487, 131>>,
    <<0, 1049, 0, 1047, 4, 2621, 18350, 30146, 17, 14915, 6697, 24479, 70>>,
    <<0, 1046, 0, 1046, 4, 20971, 15728, 11796, 143, 29833, 13394, 16190, 141>>,
    <<0, 1049, 0, 1047, 4, 3327, 9102, 27567, 18, 21847, 4408, 9215, 74>>,
    <<0, 1050, 0, 1050, 4, 13107, 26214, 19660, 9, 11171, 12983, 14963, 9>>,
    <<0, 1046, 0, 1046, 4, 13107, 26214, 19660, 153, 14899, 11125, 10038, 151>>,
    <<0, 1049, 0, 1046, 4, 17039, 20971, 15728, 20, 15159, 4385, 1903, 161>>,
    <<0, 1052, 0, 1047, 4, 9175, 31457, 23592, 2, 16643, 16024, 12212, 85>>,
    <<0, 1049, 0, 1047, 4, 18097, 23483, 28243, 21, 29407, 9053, 24804, 85>>,
    <<0, 1049, 0, 1049, 4, 31457, 23592, 1310, 23, 7857, 20082, 17876, 22>>,
    <<0, 1050, 0, 1046, 4, 27525, 28835, 5242, 12, 27959, 27333, 29860, 189>>,
    <<0, 1049, 0, 1046, 4, 97, 5097, 28920, 24, 547, 20410, 2733, 194>>,
    <<0, 1049, 0, 1046, 4, 13107, 26214, 19660, 25, 26473, 21078, 12523, 199>>,
    <<0, 1046, 0, 1047, 4, 6553, 13107, 26214, 204, 13237, 26923, 22645, 99>>,
    <<0, 1051, 0, 1047, 4, 9175, 31457, 23592, 6, 18081, 19615, 12670, 104>>,
    <<0, 1049, 0, 1051, 4, 27525, 28835, 5242, 28, 4483, 31138, 26706, 6>>,
    <<0, 1050, 0, 1046, 4, 9175, 31457, 23592, 14, 28383, 9284, 9877, 227>>,
    <<0, 1049, 0, 1046, 4, 9175, 31457, 23592, 30, 11061, 31862, 14120, 236>>,
    <<0, 1048, 0, 1048, 4, 19761, 11650, 9259, 63, 12131, 6571, 24114, 60>>,
    <<0, 1046, 0, 1046, 4, 32767, 32767, 32767, 255, 1519, 26774, 15265, 245>>,
    <<0, 1099, 0, 1050, 1, 1, 12383, 3721, 11194, 15>>,
    <<0, 1049, 0, 1047, 4, 23593, 1310, 9175, 33, 17451, 22916, 6596, 127>>,
    <<0, 1047, 0, 1047, 4, 24903, 10485, 7864, 138, 6081, 9590, 20277, 131>>,
    <<0, 1049, 0, 1048, 4, 24651, 3822, 21690, 34, 17117, 15264, 32249, 65>>,
    <<0, 1048, 0, 1049, 4, 19661, 6553, 13107, 70, 23093, 18596, 14810, 33>>,
    <<0, 1047, 0, 1048, 4, 20971, 15728, 11796, 143, 553, 12933, 32500, 67>>,
    <<0, 1047, 0, 1049, 4, 17039, 20971, 15728, 148, 4597, 16223, 2409, 35>>,
    <<0, 1049, 0, 1048, 4, 6651, 18204, 22366, 37, 2455, 5156, 2801, 71>>,
    <<0, 1047, 0, 1047, 4, 13107, 26214, 19660, 153, 16729, 12106, 17972, 144>>,
    <<0, 1050, 0, 1051, 4, 8217, 1274, 7230, 22, 22815, 24868, 7822, 10>>,
    <<0, 1049, 0, 1047, 4, 31205, 16929, 15136, 47, 20891, 27527, 30099, 172>>,
    <<0, 1098, 0, 1047, 1, 3, 3853, 11647, 16368, 174>>,
    <<0, 1049, 0, 1051, 4, 13205, 31311, 15812, 50, 13361, 32383, 11534, 11>>,
    <<0, 1048, 0, 1047, 4, 19661, 6553, 13107, 102, 32461, 1407, 21075, 183>>,
    <<0, 1047, 0, 1047, 4, 13107, 26214, 19660, 217, 131, 26765, 10740, 192>>,
    <<0, 1048, 0, 1047, 4, 13207, 31311, 15812, 114, 15309, 29642, 20860, 199>>,
    <<0, 1049, 0, 1048, 4, 4991, 30037, 8582, 60, 27525, 22954, 15975, 103>>,
    <<0, 1049, 0, 1047, 4, 19759, 11650, 9259, 63, 29401, 23055, 27936, 213>>,
    <<0, 1100, 0, 1048, 1, 1, 1655, 3849, 23209, 107>>,
    <<0, 1048, 0, 1047, 4, 19661, 6553, 13107, 134, 29377, 13421, 1977, 222>>,
    <<0, 1049, 0, 1047, 4, 29541, 28762, 1352, 70, 11583, 449, 16209, 227>>,
    <<0, 1049, 0, 1050, 4, 19661, 6553, 13107, 70, 11367, 21259, 16994, 28>>,
    <<0, 1048, 0, 1048, 4, 23089, 20752, 4058, 146, 23075, 27345, 12781, 116>>,
    <<0, 1049, 0, 1049, 4, 26313, 24757, 2705, 76, 9301, 15221, 12674, 59>>,
    <<0, 1098, 0, 1049, 1, 5, 20579, 32520, 24084, 60>>,
    <<0, 1048, 0, 1048, 4, 6653, 18204, 22366, 165, 18559, 31740, 4639, 123>>,
    <<0, 1048, 0, 1047, 4, 19661, 6553, 13107, 166, 7755, 29578, 21983, 246>>,
    <<0, 1050, 0, 1051, 4, 25433, 28125, 30505, 42, 20831, 20535, 19056, 15>>,
    <<0, 1049, 0, 1048, 4, 19661, 6553, 13107, 86, 28895, 12537, 29248, 124>>,
    <<0, 1049, 0, 1047, 4, 99, 5097, 28920, 88, 9019, 21457, 25281, 251>>,
    <<0, 1052, 0, 1049, 4, 5331, 23256, 31298, 11, 24865, 9317, 26650, 63>>,
    <<0, 1099, 0, 1047, 1, 3, 28043, 13912, 11754, 255>>,
    <<0, 1048, 0, 1047, 4, 16535, 7645, 10612, 197, 17093, 4032, 29191, 255>>,
    <<0, 1048, 0, 1050, 4, 19661, 6553, 13107, 198, 3949, 8530, 32541, 31>>,
    <<0, 1049, 0, 1053, 4, 6653, 18204, 22366, 101, 8745, 25603, 32746, 3>>,
    <<0, 1049, 0, 1047, 4, 19661, 6553, 13107, 102, 17093, 4032, 29191, 255>>,
    <<0, 1050, 0, 1050, 4, 8217, 1274, 7230, 54, 29067, 26969, 24768, 31>>,
    <<0, 1049, 0, 1048, 4, 31205, 16929, 15136, 111, 28801, 24388, 4507, 126>>,
    <<0, 1098, 0, 1048, 1, 7, 16675, 6321, 31136, 125>>,
    <<0, 1049, 0, 1047, 4, 13207, 31311, 15812, 114, 18381, 5494, 30845, 249>>,
    <<0, 1048, 0, 1051, 4, 19661, 6553, 13107, 230, 20831, 20535, 19056, 15>>,
    <<0, 1049, 0, 1047, 4, 19661, 6553, 13107, 118, 629, 28111, 2832, 246>>,
    <<0, 1048, 0, 1048, 4, 13207, 31311, 15812, 242, 22219, 31421, 11679, 121>>,
    <<0, 1048, 0, 1047, 4, 9981, 27306, 17165, 248, 21957, 17460, 19726, 238>>,
    <<0, 1049, 0, 1047, 4, 19761, 11650, 9259, 127, 12337, 26135, 31447, 233>>,
    <<0, 1101, 0, 1048, 1, 1, 23075, 27345, 12781, 116>>,
    <<0, 1050, 0, 1047, 4, 13107, 26214, 19660, 65, 26621, 2110, 5399, 227>>,
    <<0, 1049, 0, 1047, 4, 29541, 28762, 1352, 134, 19627, 20656, 23019, 221>>,
    <<0, 1049, 0, 1047, 4, 19661, 6553, 13107, 134, 29435, 32726, 32164, 220>>,
    <<0, 1052, 0, 1047, 4, 1443, 21777, 4349, 17, 3311, 7698, 13650, 215>>,
    <<0, 1050, 0, 1047, 4, 29541, 28762, 1352, 70, 987, 18980, 21327, 208>>,
    <<0, 1098, 0, 1047, 1, 9, 25513, 1441, 6119, 199>>,
    <<0, 1050, 0, 1049, 4, 13107, 26214, 19660, 73, 3017, 5804, 23761, 47>>,
    <<0, 1050, 0, 1049, 4, 25433, 28125, 30505, 74, 32691, 24927, 29844, 45>>,
    <<0, 1049, 0, 1050, 4, 19661, 6553, 13107, 150, 22845, 28913, 25137, 22>>,
    <<0, 1051, 0, 1047, 4, 8217, 1274, 7230, 38, 16539, 29249, 778, 175>>,
    <<0, 1099, 0, 1047, 1, 5, 19121, 7071, 6844, 153>>,
    <<0, 1049, 0, 1048, 4, 24651, 3822, 21690, 162, 8365, 6053, 8986, 72>>,
    <<0, 1050, 0, 1047, 4, 13107, 26214, 19660, 81, 9893, 3053, 25134, 142>>,
    <<0, 1050, 0, 1047, 4, 3327, 9102, 27567, 82, 25599, 23657, 13730, 134>>,
    <<0, 1049, 0, 1047, 4, 19661, 6553, 13107, 166, 1467, 30529, 31730, 131>>,
    <<0, 1049, 0, 1046, 4, 31205, 16929, 15136, 175, 26475, 21078, 12523, 199>>,
    <<0, 1098, 0, 1046, 1, 11, 1019, 29571, 13448, 195>>,
    <<0, 1049, 0, 1046, 4, 13207, 31311, 15812, 178, 7721, 22653, 29846, 176>>,
    <<0, 1050, 0, 1049, 4, 13107, 26214, 19660, 89, 15545, 2263, 14393, 21>>,
    <<0, 1049, 0, 1046, 4, 19661, 6553, 13107, 182, 9175, 23210, 6184, 147>>,
    <<0, 1050, 0, 1045, 4, 18879, 15018, 4291, 94, 21191, 18043, 14332, 203>>,
    <<0, 1053, 0, 1045, 4, 5331, 23256, 31298, 11, 26607, 16808, 28230, 155>>,
    <<0, 1100, 0, 1045, 1, 3, 21851, 23405, 16609, 144>>,
    <<0, 1050, 0, 1045, 4, 13107, 26214, 19660, 97, 30687, 3872, 21620, 93>>,
    <<0, 1049, 0, 1044, 4, 19661, 6553, 13107, 198, 2071, 664, 5151, 85>>,
    <<0, 1052, 0, 995, 4, 1443, 21777, 4349, 25, 23559, 26152, 6296, 141>>,
    <<0, 1050, 1, 1045, 4, 29541, 28762, 1352, 102, 313, 3773, 10235, 48>>,
    <<0, 1098, 1, 1046, 1, 13, 10531, 4658, 12973, 55>>,
    <<0, 1050, 1, 1045, 4, 13107, 26214, 19660, 105, 3207, 5486, 17419, 161>>,
    <<0, 1049, 1, 1045, 4, 19661, 6553, 13107, 214, 22401, 4560, 28430, 211>>,
    <<0, 1051, 1, 1045, 4, 8217, 1274, 7230, 54, 18623, 18916, 18355, 250>>,
    <<0, 1099, 1, 1046, 1, 7, 25119, 32116, 19693, 179>>,
    <<0, 1050, 1, 1050, 4, 13107, 26214, 19660, 113, 9053, 1201, 23224, 12>>,
    <<0, 1049, 1, 1047, 4, 6653, 18204, 22366, 229, 17191, 25164, 23092, 110>>,
    <<0, 1049, 1, 1046, 4, 19661, 6553, 13107, 230, 20977, 2017, 18693, 226>>,
    <<0, 1098, 1, 1047, 1, 15, 1569, 27882, 10475, 146>>,
    <<0, 1049, 1, 1052, 4, 13207, 31311, 15812, 242, 3781, 17165, 26988, 4>>,
    <<0, 1050, 1, 1047, 4, 13107, 26214, 19660, 121, 16541, 32729, 20827, 156>>,
    <<0, 1049, 1, 1047, 4, 19661, 6553, 13107, 246, 20523, 7529, 18351, 166>>,
    <<0, 1053, 1, 1048, 4, 5331, 23256, 31298, 15, 7281, 12782, 30368, 95>>,
    <<0, 1102, 1, 1048, 1, 1, 3927, 24028, 28531, 96>>,
    <<0, 1050, 1, 1047, 4, 13107, 26214, 19660, 129, 5163, 8437, 28261, 201>>,
    <<0, 1051, 1, 1050, 4, 13107, 26214, 19660, 65, 22807, 24248, 6057, 26>>,
    <<0, 1050, 1, 1050, 4, 29541, 28762, 1352, 134, 2453, 14870, 23357, 27>>,
    <<0, 1098, 1, 1051, 1, 17, 14391, 5919, 10480, 14>>,
    <<0, 1050, 1, 1047, 4, 13107, 26214, 19660, 137, 2597, 29699, 17644, 234>>,
    <<0, 1051, 1, 1048, 4, 13107, 26214, 19660, 69, 30453, 25108, 22502, 119>>,
    <<0, 1099, 1, 1054, 1, 9, 3713, 13559, 31295, 1>>,
    <<0, 1050, 1, 1047, 4, 13107, 26214, 19660, 145, 29837, 9377, 20710, 252>>,
    <<0, 1051, 1, 1047, 4, 13107, 26214, 19660, 73, 27833, 9915, 12612, 254>>,
    <<0, 1098, 1, 1052, 1, 19, 18211, 19951, 32582, 7>>,
    <<0, 1050, 1, 1056, 4, 13107, 26214, 19660, 153, 1567, 5274, 16321>>,
    <<0, 1051, 1, 1047, 4, 13107, 26214, 19660, 77, 5235, 19529, 19002, 253>>,
    <<0, 1100, 1, 1047, 1, 5, 6451, 27585, 15879, 245>>,
    <<0, 1050, 1, 1047, 4, 13107, 26214, 19660, 161, 14281, 29822, 17971, 241>>,
    <<0, 1051, 1, 1049, 4, 13107, 26214, 19660, 81, 2223, 3692, 8262, 59>>,
    <<0, 1098, 1, 1047, 1, 21, 3491, 25003, 29072, 219>>,
    <<0, 1050, 1, 1047, 4, 13107, 26214, 19660, 169, 4667, 10616, 1981, 213>>,
    <<0, 1051, 1, 1050, 4, 13107, 26214, 19660, 85, 16209, 31160, 23351, 25>>,
    <<0, 1099, 1, 1047, 1, 11, 12375, 7189, 20261, 180>>,
    <<0, 1050, 1, 1047, 4, 13107, 26214, 19660, 177, 19667, 26891, 10662, 171>>,
    <<0, 1051, 1, 1047, 4, 13107, 26214, 19660, 89, 30139, 12077, 19800, 161>>,
    <<0, 1098, 1, 1047, 1, 23, 13871, 30662, 3913, 130>>,
    <<0, 1050, 1, 1049, 4, 13107, 26214, 19660, 185, 23547, 12771, 24069, 29>>,
    <<0, 1051, 1, 1046, 4, 13107, 26214, 19660, 93, 14713, 19540, 30119, 214>>,
    <<0, 1101, 1, 1052, 1, 3, 17035, 3157, 7711, 2>>,
    <<0, 1050, 1, 1046, 4, 13107, 26214, 19660, 193, 31829, 31689, 10217, 118>>,
    <<0, 1051, 1, 1045, 4, 13107, 26214, 19660, 97, 31611, 11879, 17511, 186>>,
    <<0, 1098, 1, 1045, 1, 25, 17583, 25082, 31965, 33>>,
    <<0, 1050, 0, 1043, 4, 13107, 26214, 19660, 201, 7999, 17099, 28499, 68>>,
    <<0, 1051, 0, 1047, 4, 13107, 26214, 19660, 101, 18975, 11206, 3009, 17>>,
    <<0, 1099, 0, 1047, 1, 13, 13007, 8291, 2317, 55>>,
    <<0, 1050, 0, 1046, 4, 13107, 26214, 19660, 209, 6727, 27206, 32571, 134>>,
    <<0, 1051, 0, 1046, 4, 13107, 26214, 19660, 105, 2435, 24530, 16684, 159>>,
    <<0, 1098, 0, 1047, 1, 27, 12035, 10409, 6923, 115>>,
    <<0, 1050, 0, 1046, 4, 13107, 26214, 19660, 217, 4347, 13780, 32310, 252>>,
    <<0, 1051, 0, 1047, 4, 13107, 26214, 19660, 109, 16655, 31243, 15026, 137>>,
    <<0, 1100, 0, 1050, 1, 7, 8513, 12443, 772, 21>>,
    <<0, 1050, 0, 1049, 4, 13107, 26214, 19660, 225, 16125, 10287, 13306, 44>>,
    <<0, 1051, 0, 1048, 4, 13107, 26214, 19660, 113, 12739, 24932, 10093, 93>>,
    <<0, 1098, 0, 1047, 1, 29, 10169, 27732, 23222, 210>>,
    <<0, 1050, 0, 1047, 4, 13107, 26214, 19660, 233, 29765, 14394, 23323, 217>>,
    <<0, 1051, 0, 1047, 4, 13107, 26214, 19660, 117, 30887, 26180, 5592, 224>>,
    <<0, 1099, 0, 1051, 1, 15, 19171, 4319, 262, 15>>,
    <<0, 1050, 0, 1048, 4, 13107, 26214, 19660, 241, 12897, 21858, 4308, 122>>,
    <<0, 1051, 0, 1047, 4, 13107, 26214, 19660, 121, 30733, 23073, 25802, 247>>,
    <<0, 1098, 0, 1048, 1, 31, 18643, 20893, 10113, 127>>,
    <<0, 1050, 0, 1047, 4, 13107, 26214, 19660, 249, 14127, 22785, 20548, 255>>,
    <<0, 1051, 0, 1047, 4, 13107, 26214, 19660, 125, 30211, 16582, 32701, 255>>,
    <<0, 1103, 0, 1047, 1, 1, 20347, 16465, 9034, 253>>,
    <<0, 1052, 0, 1047, 4, 19661, 6553, 13107, 64, 22999, 25489, 3196, 251>>,
    <<0, 1051, 0, 1047, 4, 13107, 26214, 19660, 129, 13415, 13971, 9561, 248>>,
    <<0, 1098, 0, 1047, 1, 33, 10223, 1928, 6117, 236>>,
    <<0, 1052, 0, 1047, 4, 19661, 6553, 13107, 66, 24911, 28246, 31325, 230>>,
    <<0, 1051, 0, 1048, 4, 13107, 26214, 19660, 133, 16051, 11335, 18809, 112>>,
    <<0, 1099, 0, 1049, 1, 17, 30335, 27695, 3380, 51>>,
    <<0, 1052, 0, 1047, 4, 19661, 6553, 13107, 68, 4559, 15850, 14899, 196>>,
    <<0, 1051, 0, 1047, 4, 13107, 26214, 19660, 137, 12589, 12137, 185, 188>>,
    <<0, 1098, 0, 1050, 1, 35, 7097, 17843, 32478, 19>>,
    <<0, 1052, 0, 1047, 4, 19661, 6553, 13107, 70, 21213, 1429, 24209, 149>>,
    <<0, 1051, 0, 1049, 4, 13107, 26214, 19660, 141, 2437, 13793, 26001, 34>>,
    <<0, 1100, 0, 1046, 1, 9, 12177, 27672, 152, 211>>,
    <<0, 1052, 0, 1047, 4, 19661, 6553, 13107, 72, 13383, 14037, 23359, 93>>,
    <<0, 1051, 0, 1046, 4, 13107, 26214, 19660, 145, 22807, 4927, 12398, 163>>,
    <<0, 1098, 0, 1045, 1, 37, 25279, 29907, 2058, 178>>,
    <<0, 1052, 0, 1048, 4, 19661, 6553, 13107, 74, 25285, 22489, 30479, 15>>,
    <<0, 1051, 0, 1045, 4, 13107, 26214, 19660, 149, 18333, 8182, 16426, 76>>,
    <<0, 1099, 1, 1045, 1, 19, 5053, 5284, 31285, 76>>,
    <<0, 1052, 1, 1049, 4, 19661, 6553, 13107, 76, 19219, 28733, 32547, 7>>,
    <<0, 1051, 1, 1045, 4, 13107, 26214, 19660, 153, 14057, 4139, 16732, 178>>,
    <<0, 1098, 1, 1048, 1, 39, 21713, 20705, 29440, 40>>,
    <<0, 1052, 1, 1047, 4, 19661, 6553, 13107, 78, 14081, 24755, 26825, 93>>,
    <<0, 1051, 1, 1046, 4, 13107, 26214, 19660, 157, 25489, 14668, 6940, 211>>,
    <<0, 1101, 1, 1048, 1, 5, 10153, 30195, 20797, 69>>,
    <<0, 1052, 1, 1047, 4, 19661, 6553, 13107, 80, 7303, 1426, 27230, 149>>,
    <<0, 1051, 1, 1049, 4, 13107, 26214, 19660, 161, 31157, 5290, 148, 40>>,
    <<0, 1098, 1, 1048, 1, 41, 11669, 18528, 1356, 94>>,
    <<0, 1052, 1, 1047, 4, 19661, 6553, 13107, 82, 13871, 10658, 17287, 196>>,
    <<0, 1051, 1, 1048, 4, 13107, 26214, 19660, 165, 28035, 21874, 7882, 102>>,
    <<0, 1099, 1, 1047, 1, 21, 17173, 29152, 6622, 225>>,
    <<0, 1052, 1, 1047, 4, 19661, 6553, 13107, 84, 17739, 2648, 164, 231>>,
    <<0, 1051, 1, 1051, 4, 13107, 26214, 19660, 169, 16989, 2629, 25048, 14>>,
    <<0, 1098, 1, 1047, 1, 43, 5855, 28666, 10467, 248>>,
    <<0, 1052, 1, 1047, 4, 19661, 6553, 13107, 86, 7053, 16614, 3921, 251>>,
    <<0, 1051, 1, 1047, 4, 13107, 26214, 19660, 173, 14241, 22966, 9575, 253>>,
    <<0, 1100, 1, 1047, 1, 11, 5099, 27741, 32685, 255>>,
    <<0, 1052, 1, 1047, 4, 19661, 6553, 13107, 88, 24631, 28661, 20346, 255>>,
    <<0, 1051, 1, 1051, 4, 13107, 26214, 19660, 177, 31233, 32353, 29911, 15>>,
    <<0, 1098, 1, 1048, 1, 45, 25551, 31299, 28816, 123>>,
    <<0, 1052, 1, 1054, 4, 19661, 6553, 13107, 90, 1375, 19843, 29754, 1>>,
    <<0, 1051, 1, 1047, 4, 13107, 26214, 19660, 181, 785, 1554, 2902, 240>>,
    <<0, 1099, 1, 1048, 1, 23, 31593, 18287, 1896, 112>>,
    <<0, 1052, 1, 1050, 4, 19661, 6553, 13107, 92, 26147, 12254, 6766, 27>>,
    <<0, 1051, 1, 1049, 4, 13107, 26214, 19660, 185, 21881, 20761, 21660, 52>>,
    <<0, 1098, 1, 1047, 1, 47, 25325, 27706, 17636, 186>>,
    <<0, 1052, 1, 1050, 4, 19661, 6553, 13107, 94, 19233, 24880, 6317, 22>>,
    <<0, 1051, 1, 1047, 4, 13107, 26214, 19660, 189, 31843, 1893, 3370, 168>>,
    <<0, 1102, 1, 1047, 1, 3, 26021, 28590, 11883, 137>>,
    <<0, 1052, 1, 1048, 4, 19661, 6553, 13107, 96, 9549, 1999, 6458, 63>>,
    <<0, 1051, 1, 1047, 4, 13107, 26214, 19660, 193, 31055, 10425, 3596, 115>>,
    <<0, 1098, 1, 1049, 1, 49, 24409, 18924, 29872, 19>>,
    <<0, 1052, 1, 1046, 4, 19661, 6553, 13107, 98, 16453, 20375, 25384, 134>>,
    <<0, 1051, 1, 1045, 4, 13107, 26214, 19660, 197, 30727, 11909, 27484, 219>>,
    <<0, 1099, 1, 1044, 1, 25, 20411, 6211, 27107, 135>>,
    <<0, 1052, 1, 1043, 4, 19661, 6553, 13107, 100, 30385, 17198, 1672, 67>>,
    <<0, 1051, 0, 1044, 4, 13107, 26214, 19660, 201, 26301, 16489, 28180, 68>>,
    <<0, 1098, 0, 1045, 1, 51, 25137, 8068, 32162, 186>>,
    <<0, 1052, 0, 1047, 4, 19661, 6553, 13107, 102, 28919, 5600, 8733, 59>>,
    <<0, 1051, 0, 1048, 4, 13107, 26214, 19660, 205, 26973, 27504, 26861, 35>>,
    <<0, 1100, 0, 1047, 1, 13, 25219, 18561, 18440, 107>>,
    <<0, 1052, 0, 1046, 4, 19661, 6553, 13107, 104, 13485, 27005, 2543, 238>>,
    <<0, 1051, 0, 1048, 4, 13107, 26214, 19660, 209, 28641, 26694, 3560, 65>>,
    <<0, 1098, 0, 1047, 1, 53, 26933, 32258, 22688, 161>>,
    <<0, 1052, 0, 1049, 4, 19661, 6553, 13107, 106, 13057, 18544, 27933, 42>>,
    <<0, 1051, 0, 1047, 4, 13107, 26214, 19660, 213, 24725, 18758, 22900, 180>>,
    <<0, 1099, 0, 1051, 1, 27, 9611, 17348, 28198, 12>>,
    <<0, 1052, 0, 1047, 4, 19661, 6553, 13107, 108, 29039, 25914, 4045, 213>>,
    <<0, 1051, 0, 1047, 4, 13107, 26214, 19660, 217, 31523, 22065, 30979, 219>>,
    <<0, 1098, 0, 1048, 1, 55, 2091, 28305, 17227, 118>>,
    <<0, 1052, 0, 1048, 4, 19661, 6553, 13107, 110, 14949, 17076, 25986, 120>>,
    <<0, 1051, 0, 1047, 4, 13107, 26214, 19660, 221, 4953, 24479, 16935, 245>>,
    <<0, 1101, 0, 1047, 1, 7, 24133, 25848, 19512, 253>>,
    <<0, 1052, 0, 1049, 4, 19661, 6553, 13107, 112, 17009, 28952, 24805, 63>>,
    <<0, 1051, 0, 1056, 4, 13107, 26214, 19660, 225, 29729, 22446, 16372>>,
    <<0, 1098, 0, 1048, 1, 57, 14831, 27690, 6096, 127>>,
    <<0, 1052, 0, 1048, 4, 19661, 6553, 13107, 114, 13521, 19557, 10053, 126>>,
    <<0, 1051, 0, 1047, 4, 13107, 26214, 19660, 229, 10597, 29498, 7330, 250>>,
    <<0, 1099, 0, 1047, 1, 29, 30131, 4650, 10916, 239>>,
    <<0, 1052, 0, 1047, 4, 19661, 6553, 13107, 116, 5243, 2997, 16151, 234>>,
    <<0, 1051, 0, 1052, 4, 13107, 26214, 19660, 233, 6093, 4490, 5188, 7>>,
    <<0, 1098, 0, 1047, 1, 59, 2169, 29789, 13551, 209>>,
    <<0, 1052, 0, 1047, 4, 19661, 6553, 13107, 118, 13363, 19608, 25969, 201>>,
    <<0, 1051, 0, 1049, 4, 13107, 26214, 19660, 237, 6935, 31845, 13656, 48>>,
    <<0, 1052, 0, 1047, 4, 19661, 6553, 13107, 120, 7433, 32106, 17880, 156>>,
    <<0, 1051, 0, 1047, 4, 13107, 26214, 19660, 241, 3357, 20657, 7418, 146>>,
    <<0, 1051, 0, 1046, 4, 13107, 26214, 19660, 245, 29833, 13857, 12716, 179>>>>

\* the argument of an entry of SinTable
SinArg(en) ==
    [s |-> 1 - 2 * en[1], m |-> SubSeq(en, 6, 5 + en[5]), e |-> en[2] - ExpBias]

RECURSIVE SinFind(_, _, _, _)
\* the value of the entry of tab for x, between the indices lo and hi
SinFind(tab, x, lo, hi) ==
    IF DCmp(x, SinArg(tab[(lo + hi) \div 2])) = 0
    THEN [s |-> 1 - 2 * tab[(lo + hi) \div 2][3],
          m |-> SubSeq(tab[(lo + hi) \div 2],
                       6 + tab[(lo + hi) \div 2][5],
                       Len(tab[(lo + hi) \div 2])),
          e |-> tab[(lo + hi) \div 2][4] - ExpBias]
    ELSE IF DCmp(x, SinArg(tab[(lo + hi) \div 2])) < 0
    THEN SinFind(tab, x, lo, (lo + hi) \div 2 - 1)
    ELSE SinFind(tab, x, (lo + hi) \div 2 + 1, hi)

\* the entry of tab for x
SinIn(tab, x) == SinFind(tab, x, 1, Len(tab))

\* math.sin(x)
Sin(x) == SinIn(SinTable, x)

(***************************************************************************)
(* The pattern classes.  Pixel k of the code is index k + 1 of a state     *)
(* vector here.  A next_frame is given the statements to run: a and b      *)
(* stand for the statements a + 1 .. b of the method, a pass of its for    *)
(* loop counting as one statement, so that (0, its length) is a whole call *)
(* and (a, a + 1) is the one statement a call interrupted after a          *)
(* statements would have run next.                                         *)
(***************************************************************************)
\* FuncRainbow.__init__, random.randrange(2, 5) being wv and
\* random.randrange(20, 100) being sh
FuncRainbow(wv, sh) ==
    [cls |-> "FuncRainbow", state |-> 0, wave |-> DLit(wv, 10),
     pos |-> DZero, shift |-> DLit(sh, 200)]

\* FuncRainbow.get(k)
FuncRainbow_get(self, k) ==
    imul(wheel(AndFF(self.state + k)),
         DAdd(DMul(Sin(DAdd(DMul(DInt(k), self.wave), self.pos)),
                   DLit(4, 10)),
              DLit(6, 10)))

\* FuncRainbow.next_frame: lines 127, 128 and 129
FuncRainbow_next_frame(self, a, b) ==
    [self EXCEPT
        !.state = IF a < 2 /\ 2 <= b
                  THEN AndFF(IF a < 1 THEN @ + 1 ELSE @)
                  ELSE IF a < 1 /\ 1 <= b THEN @ + 1 ELSE @,
        !.pos = IF a < 3 /\ 3 <= b THEN DAdd(@, self.shift) ELSE @]

\* FuncMoveingDots1.__init__, random.randrange(256) being p,
\* random.randrange(2, 5) being wv and random.randrange(-100, 100) being sh
FuncMoveingDots1(brighness, speed, p, wv, sh) ==
    [cls |-> "FuncMoveingDots1", state |-> DZero, brighness |-> brighness,
     color |-> wheel(p), wave |-> DLit(wv, 10),
     shift |-> DMul(DLit(sh, 200), speed)]

\* lines 141-146 and 162-167: the colour of a dot of brightness m
Dot(color, m) == IF DLt(m, DLit(1, 10)) THEN ColorEmpty ELSE imul(color, m)

\* FuncMoveingDots1.get(k)
FuncMoveingDots1_get(self, k) ==
    Dot(self.color,
        DMul(Sin(DAdd(DMul(DInt(k), self.wave), self.state)), self.brighness))

\* FuncMoveingDots1.next_frame
FuncMoveingDots1_next_frame(self) ==
    [self EXCEPT !.state = DAdd(@, self.shift)]

\* FuncMoveingDots2.__init__, random.randrange(256) being p,
\* random.randrange(3) being n and random.randrange(-100, 100) being sp
FuncMoveingDots2(p, n, sp) ==
    [cls |-> "FuncMoveingDots2", state |-> DZero, color |-> wheel(p),
     wave |-> DDiv(DMul(DMul(DInt(2), DPi), DInt(n + 1)), LED_COUNT),
     speed |-> DLit(sp, 200)]

\* FuncMoveingDots2.get(k)
FuncMoveingDots2_get(self, k) ==
    Dot(self.color,
        DSub(DMul(Sin(DAdd(DMul(DInt(k), self.wave), self.state)), DInt(4)),
             DInt(3)))

\* FuncMoveingDots2.next_frame
FuncMoveingDots2_next_frame(self) ==
    [self EXCEPT !.state = DAdd(@, self.speed)]

\* FuncMoveCombine.__init__ on its two parts
FuncMoveCombine(f1, f2) ==
    [cls |-> "FuncMoveCombine", state |-> 0, f1 |-> f1, f2 |-> f2]

\* FuncMoveCombine.get(k)
FuncMoveCombine_get(self, k) ==
    iadd(FuncMoveingDots1_get(self.f1, k), FuncMoveingDots2_get(self.f2, k))

\* FuncMoveCombine.next_frame: lines 185 and 186
FuncMoveCombine_next_frame(self, a, b) ==
    [self EXCEPT
        !.f1 = IF a < 1 /\ 1 <= b THEN FuncMoveingDots1_next_frame(@) ELSE @,
        !.f2 = IF a < 2 /\ 2 <= b THEN FuncMoveingDots2_next_frame(@) ELSE @]

\* LightFuncN.next_frame: the passes a + 1 .. b of the loop; a nonzero
\* counter goes down by one
LightFuncN_next_frame(state, a, b) ==
    [k \in 1..LED_COUNT |->
        IF a < k /\ k <= b /\ state[k] # 0 THEN state[k] - 1 ELSE state[k]]

\* FuncFade1.__init__ after LightFuncN.__init__, random.randrange(256)
\* being p
FuncFade1(p) ==
    [cls |-> "FuncFade1", state |-> [k \in 1..LED_COUNT |-> 0],
     color |-> wheel(p)]

\* FuncFade1.get with the two ramps exchanged
FuncFade1_getSlowAttack(self, k) ==
    LET s == self.state[k + 1]
    IN  IF s = 0 THEN ColorEmpty
        ELSE IF s < 5 THEN imul(self.color, DLit(s, 5))
        ELSE imul(self.color, DLit(25 - s, 20))

\* FuncFade1.get(k)
FuncFade1_get(self, k) ==
    LET s == self.state[k + 1]
    IN  IF s = 0 THEN ColorEmpty
        ELSE IF s < 20 THEN imul(self.color, DLit(s, 20))
        ELSE imul(self.color, DLit(25 - s, 5))

\* FuncFade1.next_frame triggering whatever the counter of the pixel is
FuncFade1_next_frameRestart(self, a, b, r, k) ==
    LET st == LightFuncN_next_frame(self.state, a, b)
    IN  [self EXCEPT !.state = IF b = LED_COUNT + 1 /\ r = 0
                                THEN [st EXCEPT ![k + 1] = 24]
                                ELSE st]

\* FuncFade1.next_frame: the passes of line 206, then lines 207-210 as
\* statement LED_COUNT + 1, random.randrange(5) being r and
\* random.randrange(LED_COUNT) being k
FuncFade1_next_frame(self, a, b, r, k) ==
    LET st == LightFuncN_next_frame(self.state, a, b)
    IN  [self EXCEPT !.state = IF b = LED_COUNT + 1 /\ r = 0 /\ st[k + 1] = 0
                                THEN [st EXCEPT ![k + 1] = 24]
                                ELSE st]

\* FuncFade2.__init__, random.randrange(256) being p, random.randrange(7)
\* being q and the random.randrange(slow * 2) of the pixels being st
FuncFade2(p, q, st) ==
    [cls |-> "FuncFade2", state |-> st, fast |-> 20, slow |-> 50,
     slow2 |-> 50 * 2, color1 |-> wheel(p),
     color2 |-> imul(fixcolor(q), DLit(8, 100))]

\* FuncFade2.get with a background that is full at slow and dark at the ends
FuncFade2_getPeak(self, k) ==
    LET s == self.state[k + 1]
    IN  IF s <= self.slow2
        THEN IF s < self.slow
             THEN imul(self.color2, DLit(s, self.slow))
             ELSE imul(self.color2, DLit(self.slow2 - s, self.slow))
        ELSE IF s < self.slow2 + self.fast
        THEN iadd(self.color2,
                  imul(self.color1, DLit(s - self.slow2, self.fast)))
        ELSE imul(self.color1, DLit(self.slow2 + self.fast + 5 - s, 5))

\* FuncFade2.get(k)
FuncFade2_get(self, k) ==
    LET s == self.state[k + 1]
    IN  IF s <= self.slow2
        THEN IF s < self.slow
             THEN imul(self.color2, DLit(self.slow - s, self.slow))
             ELSE imul(self.color2, DLit(s - self.slow, self.slow))
        ELSE IF s < self.slow2 + self.fast
        THEN iadd(self.color2,
                  imul(self.color1, DLit(s - self.slow2, self.fast)))
        ELSE imul(self.color1, DLit(self.slow2 + self.fast + 5 - s, 5))

\* the loop of FuncFade2.next_frame and FuncSparkling1.next_frame, its
\* passes a + 1 .. b: a nonzero phase goes down by one, a zero one goes to
\* slow2
WrapDown(self, a, b) ==
    [k \in 1..LED_COUNT |->
        IF a < k /\ k <= b
        THEN IF self.state[k] # 0 THEN self.state[k] - 1 ELSE self.slow2
        ELSE self.state[k]]

\* FuncFade2.next_frame triggering whatever the phase of the pixel is
FuncFade2_next_frameRestart(self, a, b, r, k) ==
    LET st == WrapDown(self, a, b)
    IN  [self EXCEPT !.state =
            IF b = LED_COUNT + 1 /\ r = 0
            THEN [st EXCEPT ![k + 1] = self.slow2 + self.fast + 4]
            ELSE st]

\* FuncFade2.next_frame: the passes of lines 244-248, then lines 249-252 as
\* statement LED_COUNT + 1, random.randrange(10) being r and
\* random.randrange(LED_COUNT) being k
FuncFade2_next_frame(self, a, b, r, k) ==
    LET st == WrapDown(self, a, b)
    IN  [self EXCEPT !.state =
            IF b = LED_COUNT + 1 /\ r = 0 /\ st[k + 1] <= self.slow2
            THEN [st EXCEPT ![k + 1] = self.slow2 + self.fast + 4]
            ELSE st]

\* FuncSparkling1.__init__, with p, q and st as for FuncFade2
FuncSparkling1(p, q, st) ==
    [cls |-> "FuncSparkling1", state |-> st, slow |-> 50, slow2 |-> 50 * 2,
     color1 |-> wheel(p), color2 |-> imul(fixcolor(q), DLit(8, 100))]

\* FuncSparkling1.get(k), random.randrange(LED_COUNT * 10) being r
FuncSparkling1_get(self, k, r) ==
    LET s == self.state[k + 1]
    IN  IF r = 0 THEN self.color1
        ELSE IF s <= self.slow2
        THEN IF s < self.slow
             THEN imul(self.color2, DLit(self.slow - s, self.slow))
             ELSE imul(self.color2, DLit(s - self.slow, self.slow))
        ELSE self.color2

\* FuncSparkling1.next_frame: the passes of lines 280-284
FuncSparkling1_next_frame(self, a, b) ==
    [self EXCEPT !.state = WrapDown(self, a, b)]

\* random.randrange(LED_COUNT), drawn only after a 0
PixelDraws(r) == IF r = 0 THEN 0..(LED_COUNT - 1) ELSE {0}

\* f.get(k) of whatever class f is of: the colours it can return
Samples(f, k, flashes) ==
    CASE f.cls = "FuncRainbow" -> {FuncRainbow_get(f, k)}
      [] f.cls = "FuncMoveingDots1" -> {FuncMoveingDots1_get(f, k)}
      [] f.cls = "FuncMoveingDots2" -> {FuncMoveingDots2_get(f, k)}
      [] f.cls = "FuncMoveCombine" -> {FuncMoveCombine_get(f, k)}
      [] f.cls = "FuncFade1" -> {FuncFade1_get(f, k)}
      [] f.cls = "FuncFade2" -> {FuncFade2_get(f, k)}
      [] f.cls = "FuncSparkling1" ->
            {FuncSparkling1_get(f, k, r) : r \in flashes}

\* the statements of f.next_frame(), whatever class f is of
Statements(f) ==
    CASE f.cls = "FuncRainbow" -> 3
      [] f.cls \in {"FuncMoveingDots1", "FuncMoveingDots2"} -> 1
      [] f.cls = "FuncMoveCombine" -> 2
      [] f.cls \in {"FuncFade1", "FuncFade2"} -> LED_COUNT + 1
      [] f.cls = "FuncSparkling1" -> LED_COUNT

\* the statements a + 1 .. b of f.next_frame(), whatever class f is of: the
\* instance afterwards
next_frame(f, a, b, triggers) ==
    CASE f.cls = "FuncRainbow" -> {FuncRainbow_next_frame(f, a, b)}
      [] f.cls = "FuncMoveingDots1" -> {FuncMoveingDots1_next_frame(f)}
      [] f.cls = "FuncMoveingDots2" -> {FuncMoveingDots2_next_frame(f)}
      [] f.cls = "FuncMoveCombine" -> {FuncMoveCombine_next_frame(f, a, b)}
      [] f.cls = "FuncFade1" ->
            {FuncFade1_next_frame(f, a, b, r, k) :
                <<r, k>> \in {<<x, y>> \in triggers \X (0..(LED_COUNT - 1)) :
                                y \in PixelDraws(x)}}
      [] f.cls = "FuncFade2" ->
            {FuncFade2_next_frame(f, a, b, r, k) :
                <<r, k>> \in {<<x, y>> \in triggers \X (0..(LED_COUNT - 1)) :
                                y \in PixelDraws(x)}}
      [] f.cls = "FuncSparkling1" -> {FuncSparkling1_next_frame(f, a, b)}

\* the instances cls() can construct under the draws of the frame loop
Instances(cls) ==
    CASE cls = "FuncRainbow" ->
            {FuncRainbow(wv, sh) : wv \in Draws.wave, sh \in Draws.shift}
      [] cls = "FuncMoveingDots1" ->
            {FuncMoveingDots1(DOne, DOne, p, wv, sh) :
                p \in Draws.wheel, wv \in Draws.wave, sh \in Draws.speed}
      [] cls = "FuncMoveingDots2" ->
            {FuncMoveingDots2(p, n, sp) :
                p \in Draws.wheel, n \in Draws.count, sp \in Draws.speed}
      [] cls = "FuncMoveCombine" ->
            {FuncMoveCombine(FuncMoveingDots1(DLit(2, 10), DLit(1, 10),
                                              p, wv, sh),
                             FuncMoveingDots2(p2, n, sp)) :
                p \in Draws.wheel, wv \in Draws.wave, sh \in Draws.speed,
                p2 \in Draws.wheel, n \in Draws.count, sp \in Draws.speed}
      [] cls = "FuncFade1" -> {FuncFade1(p) : p \in Draws.wheel}
      [] cls = "FuncFade2" ->
            {FuncFade2(p, q, st) :
                p \in Draws.wheel, q \in Draws.fix,
                st \in [1..LED_COUNT -> Draws.phase]}
      [] cls = "FuncSparkling1" ->
            {FuncSparkling1(p, q, st) :
                p \in Draws.wheel, q \in Draws.fix,
                st \in [1..LED_COUNT -> Draws.phase]}

(***************************************************************************)
(* class Tree                                                              *)
(***************************************************************************)
\* Tree.funclist
funclist == <<"FuncRainbow", "FuncMoveingDots1", "FuncMoveingDots2",
              "FuncMoveCombine", "FuncFade1", "FuncFade2", "FuncSparkling1">>

\* Tree.__init__: fixfunc.  A negative index counts from the end of the list,
\* and one beyond either end raises IndexError
InitFixfunc(action) ==
    IF action # NoInt /\ IntOf(action) < Len(funclist)
    THEN IF IntOf(action) >= 0 THEN funclist[IntOf(action) + 1]
         ELSE IF IntOf(action) >= -Len(funclist)
         THEN funclist[Len(funclist) + IntOf(action) + 1]
         ELSE "IndexError"
    ELSE None

\* Tree.__init__: args.wait is clamped
InitWait(wait) == IF wait < 0 THEN 0 ELSE wait

\* _random_func ignoring fixfunc
RandomFuncAny(fix) == {funclist[k] : k \in 1..Len(funclist)}

\* Tree._random_func: the classes the next scene can be of
RandomFuncChoices(fix) ==
    IF fix # None THEN {fix} ELSE {funclist[k] : k \in 1..Len(funclist)}

\* choice(): the instances a call of cls() can return; id tells the objects
\* apart
NewFunc(cls, id) == {[id |-> id] @@ obj : obj \in Instances(cls)}

\* time.time(): the clock in seconds
time == DLit(now, 1000)

\* run() lines 314, 355: the frame period 0.04
FramePeriod == DLit(4, 100)
\* run() lines 354, 357: the sleep floor 0.01
SleepFloor == DLit(1, 100)
\* run() line 339: the step 0.02 of mix
MixStep == DLit(2, 100)

\* run() lines 322-325: the cross-fade of two samples at mix m
blend(x, y, m) == iadd(imul(x, DSub(DOne, m)), imul(y, m))

\* the end of a transition tested against 1.1
MixDoneLate(m) == DGt(m, DLit(11, 10))

\* run() line 340: the end of a transition
MixDone(m) == DGe(m, DOne)

\* a function about to be applied to the input in; no function is "none"
Call(op, in) == [op |-> op, in |-> in, out |-> <<>>, done |-> FALSE]

HistInit ==
    [frame    |-> 0,      \* frames whose pacing step has begun
     nextId   |-> 1,      \* identity of the next instance created
     sampled  |-> {},     \* ids of the instances sampled in this frame's render
     advanced |-> <<>>,   \* ids whose next_frame() was called in this frame, in order
     pending  |-> 0,      \* pixels written and not yet followed by show()
     since    |-> 0,      \* executions of line 339 since func2 was assigned
     started  |-> 0,      \* transitions started
     promoted |-> 0,      \* transitions ended
     lastLen  |-> 0,      \* "since" at the last promotion
     steady   |-> TRUE,   \* every time.time() of line 333 read later than the one before
     rem      |-> DZero,  \* t_next - t as computed by the last line 353
     intAt    |-> None,   \* the statement the KeyboardInterrupt arrived at
     intIter  |-> 0,      \* the passes or statements done there
     exitOps  |-> <<>>]   \* driver operations after the loop was left

\* the state after Tree(args), or after Tree(args) has raised IndexError
TreeInit(action, wait, clear) ==
    /\ args = [action |-> action,
               wait |-> IF InitFixfunc(action) = "IndexError"
                        THEN wait ELSE InitWait(wait),
               clear |-> clear]
    /\ fixfunc = IF InitFixfunc(action) = "IndexError"
                 THEN None ELSE InitFixfunc(action)
    /\ func1 = NoFunc
    /\ func2 = NoFunc
    /\ mix = DZero
    /\ now = 0
    /\ t = Unbound
    /\ t_next_scene = Unbound
    /\ t_next = Unbound
    /\ w = Unbound
    /\ pc = IF InitFixfunc(action) = "IndexError" THEN "failed" ELSE "start"
    /\ i = NoInt
    /\ iter = 0
    /\ c = Unbound
    /\ c2 = Unbound
    /\ pixels = [k \in 1..LED_COUNT |-> 0]
    /\ shown = NoBuffer
    /\ hist = HistInit
    /\ calc = Call("none", <<>>)

Init ==
    \E action \in ActionInputs, wait \in WaitInputs, clear \in BOOLEAN :
        TreeInit(action, wait, clear)

\* run() line 311
Start ==
    /\ pc = "start"
    /\ \E cls \in RandomFuncChoices(fixfunc) :
          func1' \in NewFunc(cls, hist.nextId)
    /\ hist' = [hist EXCEPT !.nextId = @ + 1]
    /\ pc' = "begin"
    /\ UNCHANGED <<args, fixfunc, func2, mix, now, t, t_next_scene, t_next,
                   w, i, iter, c, c2, pixels, shown, calc>>

\* run() lines 312-314: the clock is read
Begin ==
    /\ pc = "begin"
    /\ t' = time
    /\ t_next_scene' = DAdd(time, DInt(args.wait))
    /\ t_next' = DAdd(time, FramePeriod)
    /\ pc' = "for"
    /\ UNCHANGED <<args, fixfunc, func1, func2, mix, now, w, i, iter, c, c2,
                   pixels, shown, hist, calc>>

\* run() line 319: the loop takes the next index, or ends
For ==
    /\ pc = "for"
    /\ IF iter < LED_COUNT
       THEN i' = SomeInt(iter) /\ iter' = iter + 1 /\ pc' = "get"
       ELSE i' = i /\ iter' = 0 /\ pc' = "show"
    /\ UNCHANGED <<args, fixfunc, func1, func2, mix, now, t, t_next_scene,
                   t_next, w, c, c2, pixels, shown, hist, calc>>

\* run() lines 320-321
Get(flashes) ==
    /\ pc = "get"
    /\ c' \in Samples(func1, IntOf(i), flashes)
    /\ hist' = [hist EXCEPT !.sampled = @ \cup {func1.id}]
    /\ pc' = IF func2 # NoFunc THEN "fade" ELSE "set"
    /\ UNCHANGED <<args, fixfunc, func1, func2, mix, now, t, t_next_scene,
                   t_next, w, i, iter, c2, pixels, shown, calc>>

\* run() line 322
Fade ==
    /\ pc = "fade"
    /\ c' = imul(c, DSub(DOne, mix))
    /\ pc' = "get2"
    /\ UNCHANGED <<args, fixfunc, func1, func2, mix, now, t, t_next_scene,
                   t_next, w, i, iter, c2, pixels, shown, hist, calc>>

\* run() line 323
Get2(flashes) ==
    /\ pc = "get2"
    /\ c2' \in Samples(func2, IntOf(i), flashes)
    /\ hist' = [hist EXCEPT !.sampled = @ \cup {func2.id}]
    /\ pc' = "scale2"
    /\ UNCHANGED <<args, fixfunc, func1, func2, mix, now, t, t_next_scene,
                   t_next, w, i, iter, c, pixels, shown, calc>>

\* run() line 324
Scale2 ==
    /\ pc = "scale2"
    /\ c2' = imul(c2, mix)
    /\ pc' = "add"
    /\ UNCHANGED <<args, fixfunc, func1, func2, mix, now, t, t_next_scene,
                   t_next, w, i, iter, c, pixels, shown, hist, calc>>

\* run() line 325
Add ==
    /\ pc = "add"
    /\ c' = iadd(c, c2)
    /\ pc' = "set"
    /\ UNCHANGED <<args, fixfunc, func1, func2, mix, now, t, t_next_scene,
                   t_next, w, i, iter, c2, pixels, shown, hist, calc>>

\* run() lines 326-330: c.get() clamps c, and setPixelColor raises
\* OverflowError on a negative value, the pixel staying as it was
Set ==
    /\ pc = "set"
    /\ c' = get_self(c)
    /\ IF get(c) < 0
       THEN UNCHANGED <<pixels, hist>>
       ELSE /\ pixels' = [pixels EXCEPT ![IntOf(i) + 1] = get(c)]
            /\ hist' = [hist EXCEPT !.pending = @ + 1]
    /\ pc' = "for"
    /\ UNCHANGED <<args, fixfunc, func1, func2, mix, now, t, t_next_scene,
                   t_next, w, i, iter, c2, shown, calc>>

\* run() line 331: strip.show(), which takes d ms
Show(delays, stalls) ==
    /\ pc = "show"
    /\ \E d \in delays \cup (IF hist.frame < StallFrames THEN stalls ELSE {}) :
          now' = now + d
    /\ shown' = pixels
    /\ hist' = [hist EXCEPT !.pending = 0]
    /\ pc' = "advance"
    /\ UNCHANGED <<args, fixfunc, func1, func2, mix, t, t_next_scene, t_next,
                   w, i, iter, c, c2, pixels, calc>>

\* run() line 332: the next statement of func1.next_frame()
Advance(triggers) ==
    /\ pc = "advance"
    /\ func1' \in next_frame(func1, iter, iter + 1, triggers)
    /\ hist' = [hist EXCEPT
                  !.advanced = IF iter = 0 THEN Append(@, func1.id) ELSE @]
    /\ IF iter + 1 < Statements(func1)
       THEN iter' = iter + 1 /\ pc' = pc
       ELSE iter' = 0 /\ pc' = "sched"
    /\ UNCHANGED <<args, fixfunc, func2, mix, now, t, t_next_scene, t_next,
                   w, i, c, c2, pixels, shown, calc>>

\* run() line 333
SchedClock ==
    /\ pc = "sched"
    /\ t' = time
    /\ hist' = [hist EXCEPT !.steady = @ /\ DGt(time, t)]
    /\ pc' = "scene"
    /\ UNCHANGED <<args, fixfunc, func1, func2, mix, now, t_next_scene,
                   t_next, w, i, iter, c, c2, pixels, shown, calc>>

\* lines 334-336 with the comparison of line 335 turned round
SchedSingleBeforeDeadline ==
    /\ pc = "scene"
    /\ func2 = NoFunc
    /\ IF DGt(t_next_scene, t)
       THEN /\ \E cls \in RandomFuncChoices(fixfunc) :
                  func2' \in NewFunc(cls, hist.nextId)
            /\ hist' = [hist EXCEPT !.nextId = @ + 1,
                                    !.since = 0,
                                    !.started = @ + 1]
            /\ pc' = "reset"
       ELSE /\ UNCHANGED <<func2, hist>>
            /\ pc' = "pace"
    /\ UNCHANGED <<args, fixfunc, func1, mix, now, t, t_next_scene, t_next,
                   w, i, iter, c, c2, pixels, shown, calc>>

\* lines 334-336 assigning func2 already at the deadline itself
SchedSingleAtDeadline ==
    /\ pc = "scene"
    /\ func2 = NoFunc
    /\ IF ~DGt(t_next_scene, t)
       THEN /\ \E cls \in RandomFuncChoices(fixfunc) :
                  func2' \in NewFunc(cls, hist.nextId)
            /\ hist' = [hist EXCEPT !.nextId = @ + 1,
                                    !.since = 0,
                                    !.started = @ + 1]
            /\ pc' = "reset"
       ELSE /\ UNCHANGED <<func2, hist>>
            /\ pc' = "pace"
    /\ UNCHANGED <<args, fixfunc, func1, mix, now, t, t_next_scene, t_next,
                   w, i, iter, c, c2, pixels, shown, calc>>

\* run() lines 334-336: no incoming pattern
SchedSingle ==
    /\ pc = "scene"
    /\ func2 = NoFunc
    /\ IF DLt(t_next_scene, t)
       THEN /\ \E cls \in RandomFuncChoices(fixfunc) :
                  func2' \in NewFunc(cls, hist.nextId)
            /\ hist' = [hist EXCEPT !.nextId = @ + 1,
                                    !.since = 0,
                                    !.started = @ + 1]
            /\ pc' = "reset"
       ELSE /\ UNCHANGED <<func2, hist>>
            /\ pc' = "pace"
    /\ UNCHANGED <<args, fixfunc, func1, mix, now, t, t_next_scene, t_next,
                   w, i, iter, c, c2, pixels, shown, calc>>

\* run() line 337
SchedReset ==
    /\ pc = "reset"
    /\ mix' = DZero
    /\ pc' = "pace"
    /\ UNCHANGED <<args, fixfunc, func1, func2, now, t, t_next_scene, t_next,
                   w, i, iter, c, c2, pixels, shown, hist, calc>>

\* run() lines 334, 338-339: a transition is in progress
SchedTransition ==
    /\ pc = "scene"
    /\ func2 # NoFunc
    /\ mix' = DAdd(mix, MixStep)
    /\ hist' = [hist EXCEPT !.since = @ + 1]
    /\ pc' = "test"
    /\ UNCHANGED <<args, fixfunc, func1, func2, now, t, t_next_scene, t_next,
                   w, i, iter, c, c2, pixels, shown, calc>>

\* run() lines 340-341 and 344
SchedTest ==
    /\ pc = "test"
    /\ IF MixDone(mix)
       THEN /\ func1' = func2
            /\ hist' = [hist EXCEPT !.lastLen = hist.since,
                                    !.promoted = @ + 1]
            /\ pc' = "promote"
       ELSE /\ UNCHANGED <<func1, hist>>
            /\ pc' = "advance2"
    /\ UNCHANGED <<args, fixfunc, func2, mix, now, t, t_next_scene, t_next,
                   w, i, iter, c, c2, pixels, shown, calc>>

\* run() line 342
Promote ==
    /\ pc = "promote"
    /\ func2' = NoFunc
    /\ pc' = "deadline"
    /\ UNCHANGED <<args, fixfunc, func1, mix, now, t, t_next_scene, t_next,
                   w, i, iter, c, c2, pixels, shown, hist, calc>>

\* run() line 343
Deadline ==
    /\ pc = "deadline"
    /\ t_next_scene' = DAdd(t, DInt(args.wait))
    /\ pc' = "pace"
    /\ UNCHANGED <<args, fixfunc, func1, func2, mix, now, t, t_next, w, i,
                   iter, c, c2, pixels, shown, hist, calc>>

\* run() line 345: the next statement of func2.next_frame()
Advance2(triggers) ==
    /\ pc = "advance2"
    /\ func2' \in next_frame(func2, iter, iter + 1, triggers)
    /\ hist' = [hist EXCEPT
                  !.advanced = IF iter = 0 THEN Append(@, func2.id) ELSE @]
    /\ IF iter + 1 < Statements(func2)
       THEN iter' = iter + 1 /\ pc' = pc
       ELSE iter' = 0 /\ pc' = "pace"
    /\ UNCHANGED <<args, fixfunc, func1, mix, now, t, t_next_scene, t_next,
                   w, i, c, c2, pixels, shown, calc>>

\* run() line 352: the clock is read again, d ms after line 333 read it
PaceClock(delays) ==
    /\ pc = "pace"
    /\ \E d \in delays :
          /\ now' = now + d
          /\ t' = DLit(now + d, 1000)
    /\ hist' = [hist EXCEPT !.frame = @ + 1]
    /\ pc' = "wait"
    /\ UNCHANGED <<args, fixfunc, func1, func2, mix, t_next_scene, t_next, w,
                   i, iter, c, c2, pixels, shown, calc>>

\* run() line 353
PaceWait ==
    /\ pc = "wait"
    /\ w' = DSub(t_next, t)
    /\ hist' = [hist EXCEPT !.rem = DSub(t_next, t)]
    /\ pc' = "tick"
    /\ UNCHANGED <<args, fixfunc, func1, func2, mix, now, t, t_next_scene,
                   t_next, i, iter, c, c2, pixels, shown, calc>>

\* lines 354-357 without the floor of 0.01
PaceTickNoFloor ==
    /\ pc = "tick"
    /\ IF DGe(w, SleepFloor)
       THEN /\ t_next' = DAdd(t_next, FramePeriod)
            /\ pc' = "sleep"
            /\ UNCHANGED w
       ELSE /\ pc' = "floor"
            /\ UNCHANGED <<w, t_next>>
    /\ UNCHANGED <<args, fixfunc, func1, func2, mix, now, t, t_next_scene, i,
                   iter, c, c2, pixels, shown, hist, calc>>

\* run() lines 354-357
PaceTick ==
    /\ pc = "tick"
    /\ IF DGe(w, SleepFloor)
       THEN /\ t_next' = DAdd(t_next, FramePeriod)
            /\ pc' = "sleep"
            /\ UNCHANGED w
       ELSE /\ w' = SleepFloor
            /\ pc' = "floor"
            /\ UNCHANGED t_next
    /\ UNCHANGED <<args, fixfunc, func1, func2, mix, now, t, t_next_scene, i,
                   iter, c, c2, pixels, shown, hist, calc>>

\* line 358 moving the tick on by a period instead
PaceFloorNoReset ==
    /\ pc = "floor"
    /\ t_next' = DAdd(t_next, FramePeriod)
    /\ pc' = "sleep"
    /\ UNCHANGED <<args, fixfunc, func1, func2, mix, now, t, t_next_scene, w,
                   i, iter, c, c2, pixels, shown, hist, calc>>

\* run() line 358
PaceFloor ==
    /\ pc = "floor"
    /\ t_next' = DAdd(t, DLit(5, 100))
    /\ pc' = "sleep"
    /\ UNCHANGED <<args, fixfunc, func1, func2, mix, now, t, t_next_scene, w,
                   i, iter, c, c2, pixels, shown, hist, calc>>

\* run() line 359 and the return to line 318: time.sleep(w) returns at the
\* tick of the clock nearest to w seconds later, or j ms after it
Sleep(jitter, frames) ==
    /\ pc = "sleep"
    /\ hist.frame < frames
    /\ \E j \in jitter : now' = now + PyRound(DMul(w, DInt(1000))) + j
    /\ pc' = "for"
    /\ hist' = [hist EXCEPT !.sampled = {}, !.advanced = <<>>]
    /\ UNCHANGED <<args, fixfunc, func1, func2, mix, t, t_next_scene, t_next,
                   w, i, iter, c, c2, pixels, shown, calc>>

\* the statements of run() inside the try of line 317
TryPcs == {"for", "get", "fade", "get2", "scale2", "add", "set", "show",
           "advance", "sched", "scene", "reset", "test", "promote",
           "deadline", "advance2", "pace", "wait", "tick", "floor", "sleep"}

\* run() lines 317, 360-361: KeyboardInterrupt is raised before a statement
\* of the try, or of a next_frame() or of a method of c or c2 called there,
\* and caught; the loop or the call that was running is left
Interrupt ==
    /\ pc \in TryPcs
    /\ pc' = "exited"
    /\ iter' = 0
    /\ c' \in CASE pc = "fade" -> Partial(c, imul(c, DSub(DOne, mix)))
                 [] pc = "add" -> Partial(c, iadd(c, c2))
                 [] pc = "set" -> Partial(c, get_self(c))
                 [] OTHER -> {c}
    /\ c2' \in IF pc = "scale2" THEN Partial(c2, imul(c2, mix)) ELSE {c2}
    /\ hist' = [hist EXCEPT !.intAt = pc, !.intIter = iter]
    /\ UNCHANGED <<args, fixfunc, func1, func2, mix, now, t, t_next_scene,
                   t_next, w, i, pixels, shown, calc>>

\* KeyboardInterrupt is raised before a statement of run() outside the try:
\* nothing catches it and run() is left by the exception
Escape ==
    /\ pc \in {"start", "begin", "exited", "clear", "blank", "push"}
    /\ pc' = "raised"
    /\ iter' = 0
    /\ hist' = [hist EXCEPT !.intAt = pc, !.intIter = iter]
    /\ UNCHANGED <<args, fixfunc, func1, func2, mix, now, t, t_next_scene,
                   t_next, w, i, c, c2, pixels, shown, calc>>

\* run() line 362
Cleanup ==
    /\ pc = "exited"
    /\ pc' = IF args.clear THEN "clear" ELSE "done"
    /\ UNCHANGED <<args, fixfunc, func1, func2, mix, now, t, t_next_scene,
                   t_next, w, i, iter, c, c2, pixels, shown, hist, calc>>

\* run() line 363: the clearing loop takes the next index, or ends
ClearFor ==
    /\ pc = "clear"
    /\ IF iter < LED_COUNT
       THEN i' = SomeInt(iter) /\ iter' = iter + 1 /\ pc' = "blank"
       ELSE i' = i /\ iter' = 0 /\ pc' = "push"
    /\ UNCHANGED <<args, fixfunc, func1, func2, mix, now, t, t_next_scene,
                   t_next, w, c, c2, pixels, shown, hist, calc>>

\* run() line 364
ClearPixel ==
    /\ pc = "blank"
    /\ pixels' = [pixels EXCEPT ![IntOf(i) + 1] = 0]
    /\ hist' = [hist EXCEPT
                  !.exitOps = Append(@, <<"setPixelColor", IntOf(i), 0>>),
                  !.pending = @ + 1]
    /\ pc' = "clear"
    /\ UNCHANGED <<args, fixfunc, func1, func2, mix, now, t, t_next_scene,
                   t_next, w, i, iter, c, c2, shown, calc>>

\* run() line 365
ClearShow ==
    /\ pc = "push"
    /\ shown' = pixels
    /\ hist' = [hist EXCEPT !.exitOps = Append(@, <<"show">>), !.pending = 0]
    /\ pc' = "done"
    /\ UNCHANGED <<args, fixfunc, func1, func2, mix, now, t, t_next_scene,
                   t_next, w, i, iter, c, c2, pixels, calc>>

Next ==
    \/ Start
    \/ Begin
    \/ For
    \/ Get(Draws.flash)
    \/ Fade
    \/ Get2(Draws.flash)
    \/ Scale2
    \/ Add
    \/ Set
    \/ Show(Delays.show, Delays.stall)
    \/ Advance(Draws.trigger)
    \/ SchedClock
    \/ SchedSingle
    \/ SchedReset
    \/ SchedTransition
    \/ SchedTest
    \/ Promote
    \/ Deadline
    \/ Advance2(Draws.trigger)
    \/ PaceClock(Delays.code)
    \/ PaceWait
    \/ PaceTick
    \/ PaceFloor
    \/ Sleep(Delays.sleep, MaxFrames)
    \/ Interrupt
    \/ Escape
    \/ Cleanup
    \/ ClearFor
    \/ ClearPixel
    \/ ClearShow

Spec == Init /\ [][Next]_vars

(***************************************************************************)
(* The same loop followed for a few frames under a clock that stalls and   *)
(* a sleep that overruns.                                                  *)
(***************************************************************************)

NextPace ==
    \/ Start
    \/ Begin
    \/ For
    \/ Get(Draws.flash)
    \/ Fade
    \/ Get2(Draws.flash)
    \/ Scale2
    \/ Add
    \/ Set
    \/ Show(PaceDelays.show, PaceDelays.stall)
    \/ Advance(Draws.trigger)
    \/ SchedClock
    \/ SchedSingle
    \/ SchedReset
    \/ SchedTransition
    \/ SchedTest
    \/ Advance2(Draws.trigger)
    \/ PaceClock(PaceDelays.code)
    \/ PaceWait
    \/ PaceTick
    \/ PaceFloor
    \/ Sleep(PaceDelays.sleep, MaxPaceFrames)
    \/ Interrupt
    \/ Escape
    \/ Cleanup
    \/ ClearFor
    \/ ClearPixel
    \/ ClearShow

SpecPace == TreeInit(SomeInt(0), 0, TRUE) /\ [][NextPace]_vars

(***************************************************************************)
(* The same loop with no fixed scene, or one counted from the end of       *)
(* funclist, or none because Tree(args) failed.                            *)
(***************************************************************************)

NextScenes ==
    \/ Start
    \/ Begin
    \/ For
    \/ Get(Draws.flash)
    \/ Fade
    \/ Get2(Draws.flash)
    \/ Scale2
    \/ Add
    \/ Set
    \/ Show({5}, Delays.stall)
    \/ Advance(Draws.trigger)
    \/ SchedClock
    \/ SchedSingle
    \/ SchedReset
    \/ SchedTransition
    \/ SchedTest
    \/ Promote
    \/ Deadline
    \/ Advance2(Draws.trigger)
    \/ PaceClock(Delays.code)
    \/ PaceWait
    \/ PaceTick
    \/ PaceFloor
    \/ Sleep(Delays.sleep, MaxFrames)
    \/ Interrupt
    \/ Escape
    \/ Cleanup
    \/ ClearFor
    \/ ClearPixel
    \/ ClearShow

SpecScenes ==
    (\E action \in SceneActions : TreeInit(action, 0, TRUE))
    /\ [][NextScenes]_vars

(***************************************************************************)
(* The pure functions, applied to inputs drawn from bounded sets.          *)
(***************************************************************************)
\* channel values: negative, fractional (ties and non-ties), above 255
\* the colours Color.get is applied to: as constructed, and as left by a
\* scaling or a merge (black is FALSE whatever the channels)
GetInputs ==
    {[x EXCEPT !.black = x.black /\ b] :
        x \in {ColorD(r, g, b) : r, g, b \in
                 {DInt(-300), DInt(-1), DZero, DLit(1, 2), DLit(3, 2),
                  DInt(127), DLit(509, 2), DInt(255), DLit(511, 2),
                  DInt(300)}},
        b \in BOOLEAN}
\* sample colours for the cross-fade and for +=
BlendColors ==
    {ColorEmpty, Color(255, 0, 0), Color(0, 128, 128), Color(255, 255, 255),
     ColorD(DInt(306), DLit(255, 2), DLit(1, 2)),
     ColorD(DInt(42), DZero, DInt(9)),
     ColorD(DLit(15, 2), DLit(225, 4), DZero),
     ColorD(DInt(-5), DZero, DLit(601, 2)),
     imul(Color(3, 252, 0), DZero), imul(Color(128, 0, 128), DLit(1, 5))}
\* values of mix for the cross-fade: 0, 0.02, the sums of 20, 25, 35 and 49
\* steps of 0.02 as line 339 adds them up, and 1
BlendMixes ==
    {DZero, MixStep,
     [s |-> 1, m |-> <<6555, 13107, 26214, 204>>, e |-> -54],
     [s |-> 1, m |-> <<1, 0, 0, 128>>, e |-> -53],
     [s |-> 1, m |-> <<26217, 19660, 6553, 179>>, e |-> -53],
     [s |-> 1, m |-> <<3937, 27525, 28835, 250>>, e |-> -53],
     DOne}

\* the fields of the Tree while run() is not running
IdleVars == <<args, fixfunc, func2, mix, now, t, t_next_scene, t_next, w, i,
              iter, c, c2, pixels, shown, hist>>

Idle ==
    /\ args = [action |-> NoInt, wait |-> 0, clear |-> FALSE]
    /\ fixfunc = None
    /\ func2 = NoFunc
    /\ mix = DZero
    /\ now = 0
    /\ t = Unbound
    /\ t_next_scene = Unbound
    /\ t_next = Unbound
    /\ w = Unbound
    /\ i = NoInt
    /\ iter = 0
    /\ c = Unbound
    /\ c2 = Unbound
    /\ pixels = [k \in 1..LED_COUNT |-> 0]
    /\ shown = NoBuffer
    /\ hist = HistInit


InitBench ==
    /\ Idle
    /\ func1 = NoFunc
    /\ pc = "bench"
    /\ \/ \E pos \in 0..255 : calc = Call("wheel", pos)
       \/ \E x \in GetInputs : calc = Call("get", x)
       \/ \E x \in BlendColors, y \in BlendColors, m \in BlendMixes :
             calc = Call("blend", <<x, y, m>>)
       \/ \E x \in BlendColors, y \in BlendColors :
             calc = Call("iadd", <<x, y>>)
       \/ \E x \in GetInputs,
                f \in {DInt(-2), DLit(-1, 2), DZero, DLit(1, 2), DOne} :
             calc = Call("imul", <<x, f>>)
       \* a pattern constructed at the colour position p with every pixel at
       \* the phase s
       \/ \E p \in {0, 100}, q \in 0..6, s \in 0..124 :
             calc = Call("fade2get",
                         <<FuncFade2(p, q, [k \in 1..LED_COUNT |-> s]), 0>>)
       \/ \E p \in {0, 100}, q \in 0..6, s \in 0..100, r \in {0, 1} :
             calc = Call("sparkget",
                         <<FuncSparkling1(p, q, [k \in 1..LED_COUNT |-> s]),
                           0, r>>)

\* the call of calc is made and has returned out
Return(op, out) ==
    /\ calc.op = op
    /\ ~calc.done
    /\ calc' = [calc EXCEPT !.out = out, !.done = TRUE]
    /\ UNCHANGED <<IdleVars, func1, pc>>

\* wheel(pos)
CalcWheel == Return("wheel", wheel(calc.in))

\* x.get(): out is <<the value returned, x afterwards>>
CalcGet == Return("get", <<get(calc.in), get_self(calc.in)>>)

\* run() lines 322-327 on one pixel: the packed cross-fade
CalcBlend ==
    Return("blend", get(blend(calc.in[1], calc.in[2], calc.in[3])))

\* x += y: out is <<x afterwards, y afterwards>>; __iadd__ only reads other
CalcIadd == Return("iadd", <<iadd(calc.in[1], calc.in[2]), calc.in[2]>>)

\* x *= f and then x.get(): out is <<x after *=, the value returned, x after
\* get()>>
CalcImul ==
    Return("imul", <<imul(calc.in[1], calc.in[2]),
                     get(imul(calc.in[1], calc.in[2])),
                     get_self(imul(calc.in[1], calc.in[2]))>>)

\* FuncFade2.get(k)
CalcFade2Get == Return("fade2get", FuncFade2_get(calc.in[1], calc.in[2]))

\* FuncSparkling1.get(k)
CalcSparklingGet ==
    Return("sparkget",
           FuncSparkling1_get(calc.in[1], calc.in[2], calc.in[3]))

NextBench ==
    \/ CalcWheel
    \/ CalcGet
    \/ CalcBlend
    \/ CalcIadd
    \/ CalcImul
    \/ CalcFade2Get
    \/ CalcSparklingGet

SpecBench == InitBench /\ [][NextBench]_vars
(***************************************************************************)
(* The loop running on, never interrupted, with the clock and the times of *)
(* run() as they are, until the scene has changed MaxScenes times.  Only   *)
(* in the first frame does show() stall, the clock read later at line 352  *)
(* or the sleep overrun (hist.frame counts the executions of line 352);    *)
(* after it every show() returns at once and every sleep on time.          *)
(***************************************************************************)
\* run() line 359 and the return to line 318, as long as the run is followed
SleepLive(jitter) ==
    /\ hist.promoted < MaxScenes
    /\ Sleep(jitter, MaxScenes * SceneFrames)

NextLive ==
    \/ Start
    \/ Begin
    \/ For
    \/ Get(Draws.flash)
    \/ Fade
    \/ Get2(Draws.flash)
    \/ Scale2
    \/ Add
    \/ Set
    \/ Show(IF hist.frame = 0 THEN PaceDelays.show ELSE {0}, {})
    \/ Advance(Draws.trigger)
    \/ SchedClock
    \/ SchedSingle
    \/ SchedReset
    \/ SchedTransition
    \/ SchedTest
    \/ Promote
    \/ Deadline
    \/ Advance2(Draws.trigger)
    \/ PaceClock(IF hist.frame = 0 THEN PaceDelays.code
                 ELSE Delays.code)
    \/ PaceWait
    \/ PaceTick
    \/ PaceFloor
    \/ SleepLive(IF hist.frame = 1 THEN PaceDelays.sleep
                 ELSE Delays.sleep)

\* the statements control can go to from the statement p of run()
After(p) ==
    CASE p = "start" -> {"begin"}
      [] p \in {"begin", "sleep", "set"} -> {"for"}
      [] p = "for" -> {"get", "show"}
      [] p = "get" -> {"fade", "set"}
      [] p = "fade" -> {"get2"}
      [] p = "get2" -> {"scale2"}
      [] p = "scale2" -> {"add"}
      [] p = "add" -> {"set"}
      [] p = "show" -> {"advance"}
      [] p = "advance" -> {"advance", "sched"}
      [] p = "sched" -> {"scene"}
      [] p = "scene" -> {"reset", "test", "pace"}
      [] p = "test" -> {"promote", "advance2"}
      [] p = "promote" -> {"deadline"}
      [] p = "advance2" -> {"advance2", "pace"}
      [] p \in {"reset", "deadline"} -> {"pace"}
      [] p = "pace" -> {"wait"}
      [] p = "wait" -> {"tick"}
      [] p = "tick" -> {"floor", "sleep"}
      [] p = "floor" -> {"sleep"}

\* control moves on to the next statement: pc is the statement and iter the
\* passes made by the running for loop (line 319: one more at every index
\* taken, kept through the body of the loop) or the statements done of the
\* running next_frame() (lines 332, 345), 0 everywhere else
Step ==
    /\ pc' \in After(pc)
    /\ iter' = IF (pc = "for" /\ pc' = "get")
                  \/ (pc \in {"advance", "advance2"} /\ pc' = pc)
               THEN iter + 1
               ELSE IF pc \in {"get", "fade", "get2", "scale2", "add", "set"}
                    THEN iter
                    ELSE 0

\* the interpreter goes on with the next statement as long as there is one:
\* none of the statements of the loop blocks for ever (show() returns, and
\* sleep(w) returns after w or a little more); the run is followed until the
\* sleep of the frame of the last scene change
\* tree.py -a 4: FuncFade1, whose pixels no draw lights in these runs
SpecLive ==
    /\ \E wait \in WaitInputs : TreeInit(SomeInt(4), wait, FALSE)
    /\ [][NextLive]_vars
    /\ WF_<<pc, iter>>(Step /\ (pc = "sleep" =>
                                  /\ hist.promoted < MaxScenes
                                  /\ hist.frame < MaxScenes * SceneFrames))

(***************************************************************************)
(* One pattern instance followed frame by frame: the samples of all pixels *)
(* (lines 319-320) and then next_frame() (line 332)                        *)
(***************************************************************************)
\* func1 = FuncFade1()
InitFade1 ==
    /\ Idle
    /\ \E p \in Draws.wheel : func1 = FuncFade1(p)
    /\ pc = "for"
    /\ calc = Call("fade1", <<>>)

\* the samples of a frame: calc.in keeps the counters they were taken at,
\* calc.out the colours
Fade1Render ==
    /\ pc = "for"
    /\ func1.cls = "FuncFade1"
    /\ calc' = [calc EXCEPT
                   !.in = func1.state,
                   !.out = [k \in 1..LED_COUNT |-> FuncFade1_get(func1, k - 1)],
                   !.done = TRUE]
    /\ pc' = "advance"
    /\ UNCHANGED <<IdleVars, func1>>

\* func1.next_frame(), the whole call
Fade1Advance ==
    /\ pc = "advance"
    /\ func1.cls = "FuncFade1"
    \* random.randrange(5) and random.randrange(10): drawn 0 or not
    /\ func1' \in next_frame(func1, 0, Statements(func1), {0, 1})
    /\ pc' = "for"
    /\ UNCHANGED <<IdleVars, calc>>

NextFade1 ==
    \/ Fade1Render
    \/ Fade1Advance

SpecFade1 == InitFade1 /\ [][NextFade1]_vars

\* func1 = FuncFade2()
InitFade2 ==
    /\ Idle
    /\ \E st \in [1..LED_COUNT -> {0, 1, 50, 99}] : func1 = FuncFade2(0, 0, st)
    /\ pc = "advance"
    /\ calc = Call("none", <<>>)

\* func1.next_frame(), the whole call
Fade2Advance ==
    /\ pc = "advance"
    /\ func1.cls = "FuncFade2"
    \* random.randrange(5) and random.randrange(10): drawn 0 or not
    /\ func1' \in next_frame(func1, 0, Statements(func1), {0, 1})
    /\ UNCHANGED <<IdleVars, pc, calc>>

SpecFade2 == InitFade2 /\ [][Fade2Advance]_vars

(***************************************************************************)
(* Properties                                                              *)
(***************************************************************************)
\* how often id occurs in the sequence q
Count(q, id) == Cardinality({k \in 1..Len(q) : q[k] = id})

\* the distance below which two brightness factors count as equal
Tolerance == DLit(1, 10000)

\* | x - y | < 0.0001
Near(x, y) == DLt([DSub(x, y) EXCEPT !.s = 1], Tolerance)

\* the channels of a colour as (red, green, blue)
RGB(x) == <<x.red, x.green, x.blue>>
RGBI(r, g, b) == <<DInt(r), DInt(g), DInt(b)>>

\* the sum of the channels of a colour
Sum(x) == DAdd(DAdd(x.red, x.green), x.blue)

\* C1: in every frame of run, each pattern sampled during the frame's render
\* (the active one, and the incoming one during a transition) has had
\* next_frame() exactly once when the frame's advance step (lines 332-345) is
\* over, the frame that promotes the incoming pattern included.
C1_SampledAdvancedOnce ==
    pc = "pace" => \A id \in hist.sampled : Count(hist.advanced, id) = 1

\* C2: whenever incoming (func2) is absent, mix is 0: the promotion clears it.
C2_MixClearedOnPromotion ==
    (pc \in TryPcs /\ func2 = NoFunc) => mix = DZero

\* C3: a transition starts with mix = 0 in the frame that assigns incoming,
\* mix is 0.02 times the number of frames since then while it lasts, and the
\* promotion happens in the 50th frame after the assigning frame, no earlier
\* and no later.
C3_PromotedAtFiftiethFrame ==
    /\ (pc = "pace" /\ func2 # NoFunc) =>
          /\ hist.since = 0 => mix = DZero
          /\ Near(mix, DLit(2 * hist.since, 100))
          /\ hist.since < 50
    /\ hist.promoted > 0 => hist.lastLen = 50
    /\ (pc = "pace" /\ hist.started > hist.promoted) => func2 # NoFunc

\* C3 witness: a transition has run to its promotion.
C3_Witness ==
    pc = "pace" /\ hist.promoted > 0 /\ hist.lastLen = 50 /\ func2 = NoFunc

\* C4: the loop is left on an interrupt only with the current frame complete:
\* no pixel set and not pushed, and no frame pushed whose advance step
\* (line 332, then lines 333-345) is not done or half done: the interrupt
\* has ended the loop in the pacing step or before the first pass of the
\* render loop.
C4_ExitAfterWholeFrame ==
    pc = "exited" =>
        /\ hist.pending = 0
        /\ \/ hist.intAt \in {"pace", "wait", "tick", "floor", "sleep"}
           \/ (hist.intAt = "for" /\ hist.intIter = 0)

\* the configuration of the end-to-end scenario: scene 0 fixed, no wait, a
\* clock that has advanced at every frame, and run() past line 311
C5_Scenario ==
    /\ func1 # NoFunc
    /\ args.action = SomeInt(0)
    /\ args.wait = 0
    /\ hist.steady

\* C5 as stated: in the scenario, after 50 or more frames a fresh instance has
\* been promoted, and active and incoming are always FuncRainbow.
C5_PromotedAfterFifty ==
    C5_Scenario =>
        /\ hist.frame >= 50 => (hist.promoted >= 1 /\ func1.id > 1)
        /\ func1.cls = "FuncRainbow"
        /\ func2 # NoFunc => func2.cls = "FuncRainbow"

\* C5 amended: the same after 51 or more frames (the first frame assigns
\* incoming, the 50 frames after it carry the transition).
C5_PromotedAfterFiftyOne ==
    C5_Scenario =>
        /\ hist.frame >= 51 => (hist.promoted >= 1 /\ func1.id > 1)
        /\ func1.cls = "FuncRainbow"
        /\ func2 # NoFunc => func2.cls = "FuncRainbow"

\* C5 witness: the scenario has run 51 frames and the promotion is done.
C5_Witness ==
    /\ C5_Scenario
    /\ hist.frame = 51
    /\ hist.promoted = 1
    /\ func1.id = 2
    /\ func1.cls = "FuncRainbow"

\* C6: the sleep the pacing step asks for is never negative, and when the
\* time line 353 finds left before the intended tick is less than 0.01 s (a
\* 200 ms stall, say) the sleep is 0.01 s and the tick is reset to the clock
\* reading + 0.05 s, so it is never left in the past.
C6_PacingNeverNegative ==
    pc = "sleep" =>
        /\ DGe(w, DZero)
        /\ DLt(hist.rem, SleepFloor) =>
              (t_next = DAdd(t, DLit(5, 100)) /\ w = SleepFloor)
        /\ DGt(t_next, t)

\* C6 witness: the pacing step has run after a stall that left the intended
\* tick 160 ms in the past.
C6_Witness ==
    /\ pc = "sleep"
    /\ t = DLit(200, 1000)
    /\ DLt(hist.rem, DLit(-159, 1000))
    /\ DGt(hist.rem, DLit(-161, 1000))
    /\ t_next = DLit(250, 1000)

\* C7: the packed cross-fade of two samples equals the packed active sample at
\* mix = 0 and the packed incoming sample at mix = 1, empty samples included.
C7_BlendBoundaries ==
    (calc.op = "blend" /\ calc.done) =>
        /\ calc.in[3] = DZero => calc.out = get(calc.in[1])
        /\ calc.in[3] = DOne => calc.out = get(calc.in[2])

\* C7 witness: an empty active sample cross-faded at mix = 1 with a coloured
\* incoming one.
C7_Witness ==
    /\ calc.op = "blend" /\ calc.done
    /\ calc.in[3] = DOne
    /\ calc.in[1].black
    /\ ~calc.in[2].black
    /\ calc.out # 0

\* C8: with clear set, the driver operations after the interrupt are
\* setPixelColor(k, 0) for k = 0..LED_COUNT-1 in order and then one show(), and
\* the buffer last pushed is all zero; with clear not set there is none.
C8_ClearOnExit ==
    pc \in {"done", "raised"} =>
        IF args.clear
        THEN /\ Len(hist.exitOps) = LED_COUNT + 1
             /\ \A k \in 1..LED_COUNT :
                   hist.exitOps[k] = <<"setPixelColor", k - 1, 0>>
             /\ hist.exitOps[LED_COUNT + 1] = <<"show">>
             /\ shown = [k \in 1..LED_COUNT |-> 0]
        ELSE hist.exitOps = <<>>

\* C9 as stated: wheel is (0,255,0) at 0, (255,0,0) at 85, (0,0,255) at 170
\* and (0,252,3) at 255.
C9_WheelLiterals ==
    (calc.op = "wheel" /\ calc.done) =>
        /\ calc.in = 0 => RGB(calc.out) = RGBI(0, 255, 0)
        /\ calc.in = 85 => RGB(calc.out) = RGBI(255, 0, 0)
        /\ calc.in = 170 => RGB(calc.out) = RGBI(0, 0, 255)
        /\ calc.in = 255 => RGB(calc.out) = RGBI(0, 252, 3)

\* C9 amended: wheel is (0,255,0) at 0, (255,0,0) at 85, (0,0,255) at 170 and
\* (0,255,0) at 255; (0,252,3) is its value at 254.
C9_WheelBoundaries ==
    (calc.op = "wheel" /\ calc.done) =>
        /\ calc.in = 0 => RGB(calc.out) = RGBI(0, 255, 0)
        /\ calc.in = 85 => RGB(calc.out) = RGBI(255, 0, 0)
        /\ calc.in = 170 => RGB(calc.out) = RGBI(0, 0, 255)
        /\ calc.in = 255 => RGB(calc.out) = RGBI(0, 255, 0)
        /\ calc.in = 254 => RGB(calc.out) = RGBI(0, 252, 3)

\* C9 witness: wheel has been applied at position 255.
C9_Witness ==
    calc.op = "wheel" /\ calc.done /\ calc.in = 255 /\ calc.out = Color(0, 255, 0)

\* a channel clamped to [0, 255] and rounded, as the claim reads it
ClampRound(x) ==
    IF DLt(x, DZero) THEN 0 ELSE IF DGt(x, DInt(255)) THEN 255 ELSE PyRound(x)

\* C10: for all channel values of a non-empty colour, get's result v unpacks
\* as (v >> 8) & 0xFF = red, (v >> 16) & 0xFF = green, v & 0xFF = blue, each
\* clamped to [0, 255] and rounded; an empty colour packs to 0.
C10_PackInvertible ==
    (calc.op = "get" /\ calc.done) =>
        IF calc.in.black THEN calc.out[1] = 0
        ELSE /\ AndFF(calc.out[1] \div 256) = ClampRound(calc.in.red)
             /\ AndFF(calc.out[1] \div 65536) = ClampRound(calc.in.green)
             /\ AndFF(calc.out[1]) = ClampRound(calc.in.blue)

\* C11: merging an empty colour into any colour X leaves X's channels and
\* flag as they were; merging a non-empty Y into an empty colour gives Y's
\* channels with the flag cleared, and Y is as it was.
C11_MergeIdentity ==
    (calc.op = "iadd" /\ calc.done) =>
        /\ calc.in[2].black => calc.out[1] = calc.in[1]
        /\ (calc.in[1].black /\ ~calc.in[2].black) =>
              /\ RGB(calc.out[1]) = RGB(calc.in[2])
              /\ ~calc.out[1].black
              /\ calc.out[2] = calc.in[2]

\* C11 witness: a coloured Y has been merged into an empty colour.
C11_Witness ==
    /\ calc.op = "iadd" /\ calc.done
    /\ calc.in[1].black
    /\ calc.in[2] = Color(0, 128, 128)
    /\ calc.out[1] = calc.in[2]

\* C12: scaling any colour by a factor f <= 0 gives a colour that packs to 0
\* and has no negative channel.
C12_ScaleByNonPositive ==
    (calc.op = "imul" /\ calc.done /\ ~DGt(calc.in[2], DZero)) =>
        /\ calc.out[2] = 0
        /\ ~DLt(calc.out[1].red, DZero)
        /\ ~DLt(calc.out[1].green, DZero)
        /\ ~DLt(calc.out[1].blue, DZero)

\* C12 witness: a non-empty colour with positive channels has been scaled by
\* a negative factor.
C12_Witness ==
    /\ calc.op = "imul" /\ calc.done
    /\ calc.in[2] = DInt(-2)
    /\ ~calc.in[1].black
    /\ DGt(calc.in[1].red, DZero)
    /\ calc.out[2] = 0

\* a background sample has been taken: FuncFade2.get or FuncSparkling1.get
\* (no flash drawn) at a phase in [0, 100]
C13_Background ==
    /\ calc.op \in {"fade2get", "sparkget"} /\ calc.done
    /\ calc.in[1].state[1] <= 100
    /\ calc.op = "sparkget" => calc.in[3] # 0

\* the background sample of the same instance at phase s
C13_At(s) ==
    IF calc.op = "fade2get"
    THEN FuncFade2_get([calc.in[1] EXCEPT !.state = [k \in 1..LED_COUNT |-> s]], 0)
    ELSE FuncSparkling1_get([calc.in[1] EXCEPT !.state = [k \in 1..LED_COUNT |-> s]], 0, 1)

\* the channels of the colour x with the factor n / 50 on them
C13_Factor(x, n) == RGB(Scaled(x, DLit(n, 50)))

\* C13 as stated: over s in [0, 100] the background factor is a symmetric
\* triangle with its peak, factor 1, at s = 50 and its lowest values at the
\* ends s = 0 and s = 100.
C13_PeakAtSlow ==
    C13_Background =>
        /\ RGB(calc.out) = RGB(C13_At(100 - calc.in[1].state[1]))
        /\ calc.in[1].state[1] = 50 => RGB(calc.out) = RGB(calc.in[1].color2)
        /\ ~DLt(Sum(calc.out), Sum(C13_At(0)))
        /\ ~DLt(Sum(calc.out), Sum(C13_At(100)))

\* C13 amended: over s in [0, 100] the background factor is |s - 50| / 50, a
\* symmetric V: factor 1 at the ends s = 0 and s = 100 and lowest, 0, at
\* s = 50.
C13_ValleyAtSlow ==
    C13_Background =>
        /\ RGB(calc.out) = RGB(C13_At(100 - calc.in[1].state[1]))
        /\ RGB(calc.out) =
              C13_Factor(calc.in[1].color2, Abs(calc.in[1].state[1] - 50))
        /\ calc.in[1].state[1] \in {0, 100} =>
              RGB(calc.out) = RGB(calc.in[1].color2)
        /\ calc.in[1].state[1] = 50 => RGB(calc.out) = RGBI(0, 0, 0)
        /\ ~DLt(Sum(calc.out), Sum(C13_At(50)))

\* C13 witness: the background has been sampled at phase 50 and is dark.
C13_Witness ==
    /\ C13_Background
    /\ calc.op = "fade2get"
    /\ calc.in[1].state[1] = 50
    /\ calc.in[1].color2 = imul(Color(255, 255, 255), DLit(8, 100))
    /\ RGB(calc.out) = RGBI(0, 0, 0)

\* C14: the deadline is the clock reading of the start, and afterwards of the
\* last promotion, plus the wait (never negative); a new incoming pattern is
\* assigned only by a scheduler step that finds no incoming pattern and a
\* clock reading strictly later than the deadline, every such step that is
\* not interrupted assigns one, and an incoming pattern is never replaced.
C14_AssignedAfterDeadline ==
    [][ /\ args.wait >= 0
        /\ IF pc \in {"begin", "deadline"} /\ pc' \notin {"exited", "raised"}
           THEN t_next_scene' = DAdd(t', DInt(args.wait))
           ELSE t_next_scene' = t_next_scene
        /\ (func2 = NoFunc /\ func2' # NoFunc) =>
              (pc = "scene" /\ DGt(t, t_next_scene))
        /\ (pc = "scene" /\ func2 = NoFunc /\ DGt(t, t_next_scene)
            /\ pc' # "exited") => func2' # NoFunc
        /\ (func2 # NoFunc /\ func2' # NoFunc) => func2'.id = func2.id
      ]_vars

\* C14 witness: with a wait of one second the first incoming pattern has just
\* been assigned, in a frame that read the clock later than one second after
\* the start and was not the first frame.
C14_Witness ==
    /\ pc = "reset"
    /\ args.wait = 1
    /\ func2 # NoFunc
    /\ hist.since = 0
    /\ hist.started = 1
    /\ hist.frame >= 1
    /\ DGt(t, DOne)
    /\ t_next_scene = DOne

\* the brightness factor of a sample of a FuncFade1, whose colour has
\* channels that add up to 255
Bright(x) == DDiv(Sum(x), 255)

\* C15 as stated: from one sample of a running pixel to the next, the
\* brightness rises while the pixel is in the first 20 ticks of its life
\* (counter 24 down to 5) and falls in the last 5 ticks (counter 5 down to
\* 1); the sample is black at counter 0.
C15_SlowRise ==
    [][ (pc = "for" /\ calc.done) =>
          \A k \in 1..LED_COUNT :
             /\ calc'.in[k] = 0 => calc'.out[k].black
             /\ (calc.in[k] >= 2 /\ calc'.in[k] = calc.in[k] - 1) =>
                   /\ calc'.in[k] >= 5 =>
                         DGt(Bright(calc'.out[k]), Bright(calc.out[k]))
                   /\ calc.in[k] <= 5 =>
                         DLt(Bright(calc'.out[k]), Bright(calc.out[k]))
      ]_vars

\* C15 amended: from one sample of a running pixel to the next, the brightness
\* rises by 1/5 in the first 5 ticks of its life (counter 24 down to 20,
\* factor (25 - counter) / 5, full at counter 20) and falls by 1/20 in the
\* remaining ticks (counter 19 down to 1, factor counter / 20); the sample is
\* black at counter 0.
C15_FastRise ==
    [][ (pc = "for" /\ calc.done) =>
          \A k \in 1..LED_COUNT :
             /\ calc'.in[k] = 0 => calc'.out[k].black
             /\ calc'.in[k] \in 20..24 =>
                   Near(Bright(calc'.out[k]), DLit(25 - calc'.in[k], 5))
             /\ calc'.in[k] \in 1..19 =>
                   Near(Bright(calc'.out[k]), DLit(calc'.in[k], 20))
             /\ (calc.in[k] >= 2 /\ calc'.in[k] = calc.in[k] - 1) =>
                   /\ calc'.in[k] >= 20 =>
                         Near(Bright(calc'.out[k]),
                              DAdd(Bright(calc.out[k]), DLit(1, 5)))
                   /\ calc.in[k] <= 20 =>
                         Near(Bright(calc'.out[k]),
                              DSub(Bright(calc.out[k]), DLit(1, 20)))
      ]_vars

\* C15 witness: a pixel has been sampled at counter 20, full, while another
\* one is idle and sampled black.
C15_Witness ==
    /\ pc = "advance" /\ calc.op = "fade1" /\ calc.done
    /\ calc.in[1] = 20
    /\ calc.out[1] = func1.color
    /\ calc.in[2] = 0
    /\ calc.out[2].black

\* C16 as stated: every counter of a FuncFade1 is in 0..24; in one advance
\* every nonzero counter goes down by exactly 1 (so a pixel set to 24 is at 0
\* after 24 further advances), at most one pixel is set to 24, and only one
\* whose counter is 0 after the decrement.
C16_EveryNonzeroDown ==
    [][ pc = "advance" =>
          /\ \A k \in 1..LED_COUNT :
                /\ func1.state[k] \in 0..24
                /\ func1'.state[k] \in 0..24
                /\ func1.state[k] > 0 => func1'.state[k] = func1.state[k] - 1
                /\ func1'.state[k] = 24 => func1.state[k] \in {0, 1}
          /\ Cardinality({k \in 1..LED_COUNT : func1'.state[k] = 24}) <= 1
      ]_vars

\* C16 amended: every counter of a FuncFade1 is in 0..24; in one advance
\* every counter of 2 or more goes down by exactly 1, a counter of 1 goes to 0
\* or, when the trigger of the same advance picks its pixel, to 24, and a
\* counter of 0 stays or goes to 24; at most one pixel is set to 24, and only
\* one whose counter is 0 after the decrement.
C16_RunningDown ==
    [][ pc = "advance" =>
          /\ \A k \in 1..LED_COUNT :
                /\ func1.state[k] \in 0..24
                /\ func1'.state[k] \in 0..24
                /\ func1.state[k] >= 2 => func1'.state[k] = func1.state[k] - 1
                /\ func1.state[k] \in {0, 1} => func1'.state[k] \in {0, 24}
          /\ Cardinality({k \in 1..LED_COUNT : func1'.state[k] = 24}) <= 1
      ]_vars

\* C16 witness: a pixel sampled at counter 1 has been triggered again by the
\* advance that ended its countdown, while another countdown is running.
C16_Witness ==
    /\ pc = "for" /\ calc.op = "fade1" /\ calc.done
    /\ calc.in[1] = 1
    /\ func1.state[1] = 24
    /\ calc.in[2] = 10
    /\ func1.state[2] = 9

\* C17 as stated: every phase of a FuncFade2 is in [0, 125); in one advance
\* at most one pixel is moved into the flash range, and only one whose phase
\* is at most 100; a pixel in the flash range (phase above 100) goes down by
\* exactly 1; a pixel at phase 0 goes to 100.
C17_FlashNeverRetriggered ==
    [][ pc = "advance" =>
          /\ \A k \in 1..LED_COUNT :
                /\ func1.state[k] \in 0..124
                /\ func1'.state[k] \in 0..124
                /\ func1'.state[k] = 124 => func1.state[k] <= 100
                /\ func1.state[k] > 100 => func1'.state[k] = func1.state[k] - 1
                /\ func1.state[k] = 0 => func1'.state[k] = 100
          /\ \A k, m \in 1..LED_COUNT :
                (func1'.state[k] = 124 /\ func1'.state[m] = 124) => k = m
      ]_vars

\* C17 amended: every phase of a FuncFade2 is in [0, 125); in one advance at
\* most one pixel is moved into the flash range (to 124), and only one whose
\* phase is at most 100 after the decrement or wrap of that advance (at most
\* 101 before it); a pixel at phase 102 or more goes down by exactly 1, one at
\* 1..101 goes down by 1 or is moved to 124, and one at 0 goes to 100 or is
\* moved to 124.
C17_FlashRunsDown ==
    [][ pc = "advance" =>
          /\ \A k \in 1..LED_COUNT :
                /\ func1.state[k] \in 0..124
                /\ func1'.state[k] \in 0..124
                /\ func1'.state[k] = 124 => func1.state[k] <= 101
                /\ func1.state[k] >= 102 => func1'.state[k] = func1.state[k] - 1
                /\ func1.state[k] \in 1..101 =>
                      func1'.state[k] \in {func1.state[k] - 1, 124}
                /\ func1.state[k] = 0 => func1'.state[k] \in {100, 124}
          /\ \A k, m \in 1..LED_COUNT :
                (func1'.state[k] = 124 /\ func1'.state[m] = 124) => k = m
      ]_vars

\* C17 witness: one pixel has just been moved into the flash range while
\* another is at the last phase of its flash.
C17_Witness ==
    /\ func1.cls = "FuncFade2"
    /\ func1.state[1] = 124
    /\ func1.state[2] = 101

\* the unit in the last place of the double x # 0
C18_Ulp(x) == [s |-> 1, m |-> <<1>>, e |-> NBits(x.m) + x.e - 53]

\* the rounding error the sums that made t_next can have gathered: one unit
\* in its last place for each of them (line 314, then line 355 or 358 in
\* every frame)
C18_Slack == DMul(DInt(hist.frame + 1), C18_Ulp(t_next))

\* C18 as stated: with a clock that never goes back and a sleep that lasts at
\* least as long as asked, the sleep asked for in every iteration is between
\* 10 ms and 40 ms inclusive (the doubles 0.01 and 0.04), and from the return
\* of every sleep to the next pacing step the intended tick is at most 40 ms
\* after the clock.
C18_SleepWithinPeriod ==
    /\ pc = "sleep" => (DGe(w, SleepFloor) /\ ~DGt(w, FramePeriod))
    /\ (pc \in TryPcs \ {"wait", "tick", "floor", "sleep"} /\ hist.frame >= 1)
          => ~DGt(DSub(t_next, time), FramePeriod)

\* C18 amended: the sleep asked for in every iteration is at least 0.01 s and
\* exceeds 0.04 s by no more than the rounding error of the sums that made
\* the intended tick, and from the return of every sleep to the next pacing
\* step the intended tick is no further after the clock than 0.04 s and that
\* error.
C18_SleepNearPeriod ==
    /\ pc = "sleep" =>
          /\ DGe(w, SleepFloor)
          /\ ~DGt(DSub(w, FramePeriod), C18_Slack)
    /\ (pc \in TryPcs \ {"wait", "tick", "floor", "sleep"} /\ hist.frame >= 1)
          => ~DGt(DSub(DSub(t_next, time), FramePeriod), C18_Slack)

\* C18 witness: the sleep of the 83rd frame of a run whose every sleep
\* returned on time is asked for: 0.040000000000002256 s, 325 units in the
\* last place above 0.04.
C18_Witness ==
    /\ pc = "sleep"
    /\ hist.frame = 83
    /\ DSub(w, FramePeriod) = DMul(DInt(325), C18_Ulp(FramePeriod))

\* C19: while a frame is rendered (its pixels are being set, or are set and
\* not yet pushed) with an incoming pattern present, 0 <= mix < 1, so both
\* blend weights 1 - mix and mix are in [0, 1], and they add up to 1.
C19_MixBelowOneWhenRendered ==
    (pc \in {"for", "get", "fade", "get2", "scale2", "add", "set", "show"}
     /\ func2 # NoFunc) =>
        /\ DGe(mix, DZero)
        /\ DLt(mix, DOne)
        /\ DGe(DSub(DOne, mix), DZero)
        /\ ~DGt(DSub(DOne, mix), DOne)
        /\ DAdd(DSub(DOne, mix), mix) = DOne

\* C19 witness: the last frame of a transition is rendered, at the mix 49
\* steps of 0.02 add up to.
C19_Witness ==
    /\ pc = "show"
    /\ func2 # NoFunc
    /\ hist.since = 49
    /\ Near(mix, DLit(98, 100))

\* the loop is running with no incoming pattern / with one
Single == pc \in TryPcs /\ func2 = NoFunc
Transitioning == pc \in TryPcs /\ func2 # NoFunc

====
